---- MODULE Spec2Model ----
(***************************************************************************)
(* Model of the streaming/reasoning/tool-call parsing core of the          *)
(* MiniMax-M2 proxy: parsers/streaming.py (SimpleStreamingParser),         *)
(* parsers/reasoning.py and parsers/tools.py.                              *)
(*                                                                         *)
(* Text is a sequence of tokens.  A token is a record [c, i]: c is the     *)
(* piece of text it stands for (one ordinary character, one whitespace     *)
(* character, a run of REASONING_BUFFER_LIMIT ordinary characters, or one  *)
(* fragment of the markup), and i is the position at which the token       *)
(* arrived in the raw stream (0 for text the parser synthesizes).  The     *)
(* program never looks at i; it only lets the properties tell where an     *)
(* emitted token came from.  The markers are split at the colon, so that   *)
(* a chunk boundary can fall inside a marker:                              *)
(*     <minimax:tool_call>   =  "<minimax:"  "tool_call>"                  *)
(*     </minimax:tool_call>  =  "</minimax:" "tool_call>"                  *)
(* Every fragment begins with "<" or ends with ">" and has no other angle  *)
(* bracket, so a marker occurs in the characters exactly where its         *)
(* fragments occur in the tokens.                                          *)
(*                                                                         *)
(* A call that raises is recorded as an output of type "raise"; the        *)
(* fields assigned before the raise keep their new values, and the turn    *)
(* ends there (the callers in proxy/main.py run the whole stream inside    *)
(* one try block, so no parser call follows an exception).                 *)
(*                                                                         *)
(* The module also models proxy/session_store.py (SessionStore: the        *)
(* memory and sqlite backends, the TTL cleanup, the history repair).  The  *)
(* clock is a variable that Tick advances; a call reads it where the code  *)
(* calls time.time().  The sqlite table is the sequence of its rows in     *)
(* rowid order.  Six specifications share the variables: Spec (one turn    *)
(* of the streaming parser), SpecNormalizer (ensure_think_wrapped applied  *)
(* repeatedly), SpecStore and SpecRepair (the store called by one caller   *)
(* at a time), SpecThreads (the store called by several threads),          *)
(* SpecCodec (tool calls encoded by tool_calls_to_minimax_xml and text     *)
(* decoded by parse_tool_calls).                                           *)
(***************************************************************************)
EXTENDS Integers, Sequences, FiniteSets, TLC

\* The streaming parser (one SimpleStreamingParser and the turn it serves).
VARIABLES accumulated, cursor, tools_sent, pending_buffer, ready_to_emit,
          emitted_content, synthetic_think_close_sent, events, pc

\* The session store (one SessionStore), the clock, the threads that call it,
\* the appends in the order in which they took the lock, and the value the
\* last call returned.
VARIABLES enabled, backend, max_messages, memory_store, messages_table,
          clock, threads, appended, returned

\* The successive results of ensure_think_wrapped on one text.
VARIABLES texts

\* One use of the tool-call codec: the calls given to the encoder, the tool
\* definitions, the text, the result of the decoder, and how far it got.
VARIABLES codec

\* One streamed Anthropic response (the local variables of
\* stream_anthropic_response, the chunks taken from the backend and the
\* events yielded) and one streamed OpenAI response (the same for
\* stream_openai_response).
VARIABLES anthropic, openai

\* One StreamingParser fed by process_delta, and one streamed Anthropic
\* response of a model that is passed through without MiniMax parsing.
VARIABLES delta_parser, passthrough

parserVars == <<accumulated, cursor, tools_sent, pending_buffer, ready_to_emit,
                emitted_content, synthetic_think_close_sent, events, pc>>

storeVars == <<enabled, backend, max_messages, memory_store, messages_table,
               clock, threads, appended, returned>>

streamVars == <<anthropic, openai, delta_parser, passthrough>>

vars == <<parserVars, storeVars, texts, codec, streamVars>>

\* ---------------------------------------------------------------- bounds
\* Number of process_chunk calls of one turn.
MaxChunks == 4

\* Number of flush_pending calls of one turn (legacy_stream makes two).
MaxFlush == 2

\* ------------------------------------------------------------- constants
REASONING_BUFFER_LIMIT == 1024

tool_call_start_token == <<"<minimax:", "tool_call>">>

tool_call_end_token == <<"</minimax:", "tool_call>">>

THINK_CLOSE == <<"</think>">>

THINK_OPEN == <<"<think>">>

\* ------------------------------------------------------------ text basics
Tok(c, i) == [c |-> c, i |-> i]

IsSpace(t) == t.c \in {" ", "\n"}

\* Number of characters a token stands for.
Weight(c) ==
    CASE c = "X"          -> REASONING_BUFFER_LIMIT
      [] c = "</think>"   -> 8
      [] c = "<think>"    -> 7
      [] c = "<minimax:"  -> 9
      [] c = "</minimax:" -> 10
      [] c = "tool_call>" -> 10
      [] c = "</invoke>"  -> 9
      [] c \in {"<invoke name=\"f\">", "<invoke name=\"g\">"} -> 17
      [] OTHER            -> 1

RECURSIVE CharLen(_)
CharLen(s) == IF s = <<>> THEN 0 ELSE Weight(Head(s).c) + CharLen(Tail(s))

MatchAt(s, p, i) ==
    /\ i >= 1
    /\ i + Len(p) - 1 <= Len(s)
    /\ \A k \in 1..Len(p) : s[i + k - 1].c = p[k]

\* str.find from a position: index of the first occurrence, 0 when absent.
Find(s, p, from) ==
    LET hits == {i \in from..Len(s) : MatchAt(s, p, i)}
    IN  IF hits = {} THEN 0 ELSE CHOOSE i \in hits : \A j \in hits : i <= j

Contains(s, p) == Find(s, p, 1) # 0

StartsWith(s, p) == MatchAt(s, p, 1)

RECURSIVE lstrip(_)
lstrip(s) == IF s # <<>> /\ IsSpace(Head(s)) THEN lstrip(Tail(s)) ELSE s

RECURSIVE rstrip(_)
rstrip(s) ==
    IF s # <<>> /\ IsSpace(s[Len(s)]) THEN rstrip(SubSeq(s, 1, Len(s) - 1)) ELSE s

RECURSIVE rstrip_newline(_)
rstrip_newline(s) ==
    IF s # <<>> /\ s[Len(s)].c = "\n"
    THEN rstrip_newline(SubSeq(s, 1, Len(s) - 1)) ELSE s

strip(s) == rstrip(lstrip(s))

\* str.replace(p, "", 1)
RemoveFirst(s, p) ==
    LET i == Find(s, p, 1)
    IN  IF i = 0 THEN s
        ELSE SubSeq(s, 1, i - 1) \o SubSeq(s, i + Len(p), Len(s))

\* str.split(p, 1)[0]
BeforeFirst(s, p) ==
    LET i == Find(s, p, 1) IN IF i = 0 THEN s ELSE SubSeq(s, 1, i - 1)

\* Optional[str]
None == [none |-> TRUE, s |-> <<>>]

Some(s) == [none |-> FALSE, s |-> s]

Truthy(o) == ~o.none /\ o.s # <<>>

\* ------------------------------------------------------- reasoning.py
ensure_think_wrapped_always(text) ==
    IF text = <<>> \/ ~Contains(text, THINK_CLOSE) THEN text
    ELSE LET stripped == lstrip(text)
             prefix   == SubSeq(text, 1, Len(text) - Len(stripped))
         IN  prefix \o <<Tok("<think>", 0), Tok("\n", 0)>> \o stripped

ensure_think_wrapped_stripping(text) ==
    IF text = <<>> \/ ~Contains(text, THINK_CLOSE) THEN text
    ELSE LET stripped == lstrip(text)
             prefix   == SubSeq(text, 1, Len(text) - Len(stripped))
         IN  IF StartsWith(stripped, THINK_OPEN) THEN stripped
             ELSE prefix \o <<Tok("<think>", 0), Tok("\n", 0)>> \o stripped

ensure_think_wrapped(text) ==
    IF text = <<>> \/ ~Contains(text, THINK_CLOSE) THEN text
    ELSE LET stripped == lstrip(text)
             prefix   == SubSeq(text, 1, Len(text) - Len(stripped))
         IN  IF StartsWith(stripped, THINK_OPEN) THEN text
             ELSE prefix \o <<Tok("<think>", 0), Tok("\n", 0)>> \o stripped

\* ------------------------------------------------------------ tools.py
\* A Python value: None, a bool, an int, a float, a dict or a list (lit is
\* its literal), or a str (s is its text).
Py(t, lit) == [t |-> t, lit |-> lit, s |-> <<>>]

PyStr(s) == [t |-> "str", lit |-> "", s |-> s]

PyNone == Py("none", "None")

\* The literal a text spells when it is one piece, "" otherwise.
Lit(s) == IF Len(s) = 1 THEN s[1].c ELSE ""

\* str.lower
lower(s) ==
    [k \in 1..Len(s) |->
        [c |-> CASE s[k].c = "NULL" -> "null"
                 [] s[k].c = "True" -> "true"
                 [] OTHER           -> s[k].c,
         i |-> s[k].i]]

\* json.loads of a parameter's raw text.
json_loads_value(value) ==
    LET l == Lit(strip(value))
    IN  CASE l = "42"           -> [ok |-> TRUE, value |-> Py("int", "42")]
          [] l = "1.5"          -> [ok |-> TRUE, value |-> Py("float", "1.5")]
          [] l = "4.0"          -> [ok |-> TRUE, value |-> Py("float", "4.0")]
          [] l = "true"         -> [ok |-> TRUE, value |-> Py("bool", "True")]
          [] l = "null"         -> [ok |-> TRUE, value |-> PyNone]
          [] l = "{\"a\": 1}"   -> [ok |-> TRUE, value |-> Py("dict", "{\"a\": 1}")]
          [] OTHER              -> [ok |-> FALSE, value |-> PyStr(value)]

\* int(value): the int, or ValueError.
int_of(value) ==
    IF Lit(strip(value)) = "42" THEN [ok |-> TRUE, value |-> Py("int", "42")]
    ELSE [ok |-> FALSE, value |-> PyStr(value)]

\* float(value) followed by `val if val != int(val) else int(val)`: float()
\* raises ValueError on text that is no number, int(nan) raises ValueError,
\* and int(inf) raises OverflowError, which the function does not catch.
float_or_int_of(value) ==
    LET l == Lit(strip(value))
    IN  CASE l = "42"  -> [ok |-> TRUE, raised |-> FALSE, value |-> Py("int", "42")]
          [] l = "4.0" -> [ok |-> TRUE, raised |-> FALSE, value |-> Py("int", "4")]
          [] l = "1.5" -> [ok |-> TRUE, raised |-> FALSE, value |-> Py("float", "1.5")]
          [] l = "inf" -> [ok |-> FALSE, raised |-> TRUE, value |-> PyStr(value)]
          [] OTHER     -> [ok |-> FALSE, raised |-> FALSE, value |-> PyStr(value)]

Converted(v) == [raised |-> FALSE, value |-> v]

convert_param_value(value, param_type) ==
    IF Lit(lower(value)) = "null" THEN Converted(PyNone)
    ELSE CASE param_type \in {"string", "str", "text"} -> Converted(PyStr(value))
           [] param_type \in {"integer", "int"} -> Converted(int_of(value).value)
           [] param_type \in {"number", "float"} ->
                [raised |-> float_or_int_of(value).raised,
                 value  |-> float_or_int_of(value).value]
           [] param_type \in {"boolean", "bool"} ->
                Converted(Py("bool", IF Lit(lower(value)) \in {"true", "1"}
                                     THEN "True" ELSE "False"))
           [] param_type \in {"object", "array"} ->
                Converted(json_loads_value(value).value)
           [] OTHER -> Converted(json_loads_value(value).value)

IsInvokeOpen(t) == t.c \in {"<invoke name=\"f\">", "<invoke name=\"g\">"}

\* extract_name applied to the quoted name that follows `<invoke name=`.
InvokeName(t) == IF t.c = "<invoke name=\"f\">" THEN "f" ELSE "g"

FirstInvokeOpen(s, from) ==
    LET hits == {i \in from..Len(s) : IsInvokeOpen(s[i])}
    IN  IF hits = {} THEN 0 ELSE CHOOSE i \in hits : \A j \in hits : i <= j

IsParameterOpen(t) ==
    t.c \in {"<parameter name=\"k\">", "<parameter name=\"n\">",
             "<parameter name=\"input\">"}

\* extract_name applied to the quoted name that follows `<parameter name=`.
ParameterName(t) ==
    CASE t.c = "<parameter name=\"k\">" -> "k"
      [] t.c = "<parameter name=\"n\">" -> "n"
      [] OTHER                          -> "input"

FirstParameterOpen(s, from) ==
    LET hits == {i \in from..Len(s) : IsParameterOpen(s[i])}
    IN  IF hits = {} THEN 0 ELSE CHOOSE i \in hits : \A j \in hits : i <= j

\* A tool definition: a dict with a name and the properties of its
\* parameters (name and declared type, "" when the property has no "type"),
\* or a list element that is not a dict.
Tool(name, properties) == [dict |-> TRUE, name |-> name, properties |-> properties]

NotADict == [dict |-> FALSE, name |-> "", properties |-> <<>>]

Property(name, type) == [name |-> name, type |-> type]

\* The scan of `tools` for the function's definition: tool.get raises
\* AttributeError on an element that is not a dict.
RECURSIVE param_config_of(_, _)
param_config_of(tools, function_name) ==
    IF tools = <<>> THEN [raised |-> FALSE, properties |-> <<>>]
    ELSE IF ~Head(tools).dict THEN [raised |-> TRUE, properties |-> <<>>]
    ELSE IF Head(tools).name = function_name
         THEN [raised |-> FALSE, properties |-> Head(tools).properties]
    ELSE param_config_of(Tail(tools), function_name)

\* The declared type of a parameter, "string" when it has none.
param_type_of(param_config, param_name) ==
    LET hits == {k \in 1..Len(param_config) :
                    param_config[k].name = param_name /\ param_config[k].type # ""}
    IN  IF hits = {} THEN "string"
        ELSE param_config[CHOOSE k \in hits : TRUE].type

\* dict[key] = value: a key keeps the place of its first assignment.
DictSet(d, key, value) ==
    IF \E k \in 1..Len(d) : d[k].name = key
    THEN [k \in 1..Len(d) |-> IF d[k].name = key
                              THEN [name |-> key, value |-> value] ELSE d[k]]
    ELSE Append(d, [name |-> key, value |-> value])

\* The text between `<parameter name="..">` and `</parameter>` as the code
\* cleans it: stripped, then without one leading and one trailing newline.
param_value(raw) ==
    LET stripped == strip(raw)
        headless == IF stripped # <<>> /\ Head(stripped).c = "\n"
                    THEN Tail(stripped) ELSE stripped
    IN  IF headless # <<>> /\ headless[Len(headless)].c = "\n"
        THEN SubSeq(headless, 1, Len(headless) - 1) ELSE headless

\* parameter_regex.findall inside one invocation, assigned to param_dict in
\* order; raised when a conversion raised.
RECURSIVE Parameters(_, _, _, _)
Parameters(body, from, param_config, param_dict) ==
    LET a == FirstParameterOpen(body, from)
        b == IF a = 0 THEN 0 ELSE Find(body, <<"</parameter>">>, a + 1)
    IN  IF a = 0 \/ b = 0 THEN [raised |-> FALSE, param_dict |-> param_dict]
        ELSE LET param_name == ParameterName(body[a])
                 converted  == convert_param_value(
                                   param_value(SubSeq(body, a + 1, b - 1)),
                                   param_type_of(param_config, param_name))
             IN  IF converted.raised
                 THEN [raised |-> TRUE, param_dict |-> param_dict]
                 ELSE Parameters(body, b + 1, param_config,
                                 DictSet(param_dict, param_name, converted.value))

\* json.dumps(param_dict): text that only json.loads turns back into the dict.
json_dumps_arguments(param_dict) == [json |-> TRUE, dict |-> param_dict]

\* invoke_regex.findall inside one block: one call for every invocation that
\* has its closing tag; raised when a step of the decoding raised.
RECURSIVE Invokes(_, _, _)
Invokes(body, from, tools) ==
    LET a == FirstInvokeOpen(body, from)
        b == IF a = 0 THEN 0 ELSE Find(body, <<"</invoke>">>, a + 1)
    IN  IF a = 0 \/ b = 0 THEN [raised |-> FALSE, calls |-> <<>>]
        ELSE LET function_name == InvokeName(body[a])
                 config == param_config_of(tools, function_name)
                 params == Parameters(SubSeq(body, a + 1, b - 1), 1,
                                      config.properties, <<>>)
                 rest   == Invokes(body, b + 1, tools)
             IN  IF config.raised \/ params.raised
                 THEN [raised |-> TRUE, calls |-> <<>>]
                 ELSE [raised |-> rest.raised,
                       calls  |-> <<[name |-> function_name,
                                     arguments |->
                                         json_dumps_arguments(params.param_dict)]>>
                                  \o rest.calls]

CallBlocks_first(s, from) ==
    LET a == Find(s, tool_call_start_token, from)
        b == IF a = 0 THEN 0 ELSE Find(s, tool_call_end_token, a + 2)
    IN  IF a = 0 \/ b = 0 THEN <<>> ELSE <<[lo |-> a, hi |-> b + 1]>>

\* tool_call_regex.findall: the call-blocks, leftmost first, each ending at
\* the first end marker after its start marker ([lo, hi] are token indexes).
RECURSIVE CallBlocks(_, _)
CallBlocks(s, from) ==
    LET a == Find(s, tool_call_start_token, from)
        b == IF a = 0 THEN 0 ELSE Find(s, tool_call_end_token, a + 2)
    IN  IF a = 0 \/ b = 0 THEN <<>>
        ELSE <<[lo |-> a, hi |-> b + 1]>> \o CallBlocks(s, b + 2)

\* The calls of one block followed by those of the blocks after it: a raise
\* ends the decoding, the calls built before it are kept.
CallsThen(first, rest) ==
    IF first.raised THEN [raised |-> TRUE, calls |-> first.calls]
    ELSE [raised |-> rest.raised, calls |-> first.calls \o rest.calls]

RECURSIVE CallsOfBlocks(_, _, _)
CallsOfBlocks(s, blocks, tools) ==
    IF blocks = <<>> THEN [raised |-> FALSE, calls |-> <<>>]
    ELSE CallsThen(Invokes(SubSeq(s, Head(blocks).lo + 2, Head(blocks).hi - 2),
                           1, tools),
                   CallsOfBlocks(s, Tail(blocks), tools))

InBlock(blocks, i) ==
    \E k \in 1..Len(blocks) : blocks[k].lo <= i /\ i <= blocks[k].hi

\* content_regex.sub('', model_output)
RECURSIVE DropBlocks(_, _, _)
DropBlocks(s, blocks, i) ==
    IF i > Len(s) THEN <<>>
    ELSE (IF InBlock(blocks, i) THEN <<>> ELSE <<s[i]>>)
         \o DropBlocks(s, blocks, i + 1)

\* The try block with its except clause: the calls decoded, none when a step
\* raised.
decoded_calls_partial(model_output, tools) ==
    CallsOfBlocks(model_output, CallBlocks(model_output, 1), tools).calls

\* except Exception: the calls built so far are dropped.
NoneIfRaised(decoded) == IF decoded.raised THEN <<>> ELSE decoded.calls

decoded_calls(model_output, tools) ==
    NoneIfRaised(CallsOfBlocks(model_output, CallBlocks(model_output, 1), tools))

\* tools = None
NoTools == <<>>

\* Lines 197-212: the result, given the calls decoded and the text left
\* when the call-blocks are taken out.
parse_result(model_output, tool_calls, content) ==
    IF tool_calls = <<>>
    THEN [tools_called |-> FALSE, tool_calls |-> <<>>,
          content |-> Some(model_output)]
    ELSE [tools_called |-> TRUE, tool_calls |-> tool_calls,
          content |-> IF content = <<>> THEN None ELSE Some(content)]

parse_tool_calls(model_output, tools) ==
    IF ~Contains(model_output, tool_call_start_token)
    THEN [tools_called |-> FALSE, tool_calls |-> <<>>, content |-> Some(model_output)]
    ELSE parse_result(model_output, decoded_calls(model_output, tools),
                      strip(DropBlocks(model_output,
                                       CallBlocks(model_output, 1), 1)))

\* ToolCallParser.has_tool_calls
has_tool_calls(text) == Contains(text, tool_call_start_token)

\* --------------------------------------------- SimpleStreamingParser
Self ==
    [accumulated |-> accumulated, cursor |-> cursor, tools_sent |-> tools_sent,
     pending_buffer |-> pending_buffer, ready_to_emit |-> ready_to_emit,
     emitted_content |-> emitted_content,
     synthetic_think_close_sent |-> synthetic_think_close_sent]

\* `content, _ = ensure_think_wrapped(...)`: ensure_think_wrapped returns a
\* str, and unpacking a str into two names raises ValueError unless the str
\* has exactly two characters (then the first name gets the first one).
UnpackNeverRaises(text) == FALSE

UnpackRaises(text) == CharLen(text) # 2

UnpackFirst(text) == SubSeq(text, 1, 1)

\* A flush that forgets the buffer limit and releases whatever is buffered.
flush_due_any(self, force_plain) ==
    force_plain \/ CharLen(self.pending_buffer) >= 1

\* _maybe_flush_buffer, line 171: undetermined text is released when forced
\* or when the buffer has reached the limit
flush_due(self, force_plain) ==
    force_plain \/ CharLen(self.pending_buffer) >= REASONING_BUFFER_LIMIT

\* A drain that returns the buffer and forgets to clear it.
emit_ready_buffer_kept(self) ==
    [raised |-> FALSE, out |-> Some(self.pending_buffer), self |-> self]

\* _maybe_flush_buffer, lines 185-188: once ready, drain the buffer
emit_ready_buffer(self) ==
    [raised |-> FALSE, out |-> Some(self.pending_buffer),
     self |-> [self EXCEPT !.pending_buffer = <<>>]]

\* _maybe_flush_buffer: [raised, out, self]
maybe_flush_buffer(self, force_plain) ==
    IF self.pending_buffer = <<>>
    THEN [raised |-> FALSE, out |-> None, self |-> self]
    ELSE IF ~self.ready_to_emit
    THEN IF Contains(self.pending_buffer, THINK_CLOSE)
         THEN LET wrapped == ensure_think_wrapped(self.pending_buffer)
              IN  IF UnpackRaises(wrapped)
                  THEN [raised |-> TRUE, out |-> None, self |-> self]
                  ELSE [raised |-> FALSE, out |-> Some(UnpackFirst(wrapped)),
                        self |-> [self EXCEPT !.pending_buffer = <<>>,
                                              !.ready_to_emit = TRUE]]
         ELSE IF flush_due(self, force_plain)
         THEN LET out == self.pending_buffer
              IN  IF ~Contains(out, THINK_CLOSE)
                     /\ Contains(self.accumulated, tool_call_start_token)
                  THEN LET wrapped ==
                               ensure_think_wrapped(out \o <<Tok("</think>", 0)>>)
                       IN  IF UnpackRaises(wrapped)
                           THEN [raised |-> TRUE, out |-> None, self |-> self]
                           ELSE [raised |-> FALSE,
                                 out |-> Some(UnpackFirst(wrapped)),
                                 self |-> [self EXCEPT
                                     !.synthetic_think_close_sent = TRUE,
                                     !.pending_buffer = <<>>,
                                     !.ready_to_emit = TRUE]]
                  ELSE [raised |-> FALSE, out |-> Some(out),
                        self |-> [self EXCEPT !.pending_buffer = <<>>,
                                              !.ready_to_emit = TRUE]]
         ELSE [raised |-> FALSE, out |-> None, self |-> self]
    ELSE emit_ready_buffer(self)

\* The tool_calls event content with the `not self.emitted_content` test of
\* line 241 left out: the decoder's content is used even after content went out.
tool_event_content_resend(flushed, emitted, result) ==
    LET split == rstrip(BeforeFirst(flushed.s, tool_call_start_token))
        c1 == IF Truthy(flushed) /\ Contains(flushed.s, tool_call_start_token)
              THEN IF ~emitted
                   THEN IF ~Contains(split, THINK_CLOSE)
                        THEN Some(rstrip_newline(split)
                                  \o <<Tok("\n", 0), Tok("</think>", 0)>>)
                        ELSE Some(split)
                   ELSE None
              ELSE flushed
        c2 == IF ~c1.none /\ c1.s = <<>> THEN None ELSE c1
    IN  IF Truthy(c2) THEN [content |-> c2, emitted_content |-> TRUE]
        ELSE IF Truthy(result.content)
        THEN [content |-> result.content, emitted_content |-> TRUE]
        ELSE [content |-> c2, emitted_content |-> emitted]

\* process_chunk, lines 228-246: the content carried by the tool_calls event,
\* from what the forced flush returned: [content, emitted_content]
tool_event_content(flushed, emitted, result) ==
    LET split == rstrip(BeforeFirst(flushed.s, tool_call_start_token))
        c1 == IF Truthy(flushed) /\ Contains(flushed.s, tool_call_start_token)
              THEN IF ~emitted
                   THEN IF ~Contains(split, THINK_CLOSE)
                        THEN Some(rstrip_newline(split)
                                  \o <<Tok("\n", 0), Tok("</think>", 0)>>)
                        ELSE Some(split)
                   ELSE None
              ELSE flushed
        c2 == IF ~c1.none /\ c1.s = <<>> THEN None ELSE c1
    IN  IF Truthy(c2) THEN [content |-> c2, emitted_content |-> TRUE]
        ELSE IF ~emitted /\ Truthy(result.content)
        THEN [content |-> result.content, emitted_content |-> TRUE]
        ELSE [content |-> c2, emitted_content |-> emitted]

\* What a call returned (what the caller sees of it).
NoOutput == [type |-> "none", text |-> <<>>, calls |-> <<>>]

Raised == [type |-> "raise", text |-> <<>>, calls |-> <<>>]

\* The gate without the tools_sent test: every complete block is decoded.
tool_check_again(self) == has_tool_calls(self.accumulated)

\* process_chunk, lines 221-222: the gate of the tool-call branch
tool_check(self) == ~self.tools_sent /\ has_tool_calls(self.accumulated)

\* process_chunk, lines 224-251: a complete call-block decoded to calls
tool_calls_branch(self, result) ==
    LET s2 == [self EXCEPT !.tools_sent = TRUE]
        f  == maybe_flush_buffer(s2, TRUE)
        c  == tool_event_content(f.out, f.self.emitted_content, result)
    IN  IF f.raised THEN [res |-> Raised, self |-> s2]
        ELSE [res  |-> [type |-> "tool_calls", text |-> c.content.s,
                        calls |-> result.tool_calls],
              self |-> [f.self EXCEPT !.emitted_content = c.emitted_content]]

\* process_chunk, lines 256-259
in_tool_call_block(self) ==
    /\ Contains(self.accumulated, tool_call_start_token)
    /\ ~Contains(self.accumulated, tool_call_end_token)

\* process_chunk, lines 261-278
content_branch(self) ==
    IF in_tool_call_block(self) THEN [res |-> NoOutput, self |-> self]
    ELSE LET f     == maybe_flush_buffer(self, FALSE)
             delta == BeforeFirst(f.out.s, tool_call_start_token)
         IN  IF f.raised THEN [res |-> Raised, self |-> self]
             ELSE IF Truthy(f.out) /\ delta # <<>>
             THEN [res  |-> [type |-> "content", text |-> delta, calls |-> <<>>],
                   self |-> [f.self EXCEPT !.emitted_content = TRUE]]
             ELSE [res |-> NoOutput, self |-> f.self]

\* process_chunk without its pause: buffered text is streamed although a
\* call-block is open.
process_chunk_unpaused(self, chunk_text) ==
    LET acc         == self.accumulated \o chunk_text
        new_segment == SubSeq(acc, self.cursor + 1, Len(acc))
        drop        == /\ new_segment # <<>>
                       /\ self.synthetic_think_close_sent
                       /\ Contains(new_segment, THINK_CLOSE)
        segment     == IF drop THEN RemoveFirst(new_segment, THINK_CLOSE)
                       ELSE new_segment
        s1 == [self EXCEPT
                  !.accumulated = acc,
                  !.cursor = Len(acc),
                  !.synthetic_think_close_sent = IF drop THEN FALSE ELSE @,
                  !.pending_buffer = @ \o segment]
        result == parse_tool_calls(acc, NoTools)
        f      == maybe_flush_buffer(s1, FALSE)
    IN  IF tool_check(s1) /\ result.tools_called
        THEN tool_calls_branch(s1, result)
        ELSE IF f.raised THEN [res |-> Raised, self |-> s1]
        ELSE IF Truthy(f.out)
        THEN [res  |-> [type |-> "content", text |-> f.out.s, calls |-> <<>>],
              self |-> [f.self EXCEPT !.emitted_content = TRUE]]
        ELSE [res |-> NoOutput, self |-> f.self]

\* process_chunk: [res, self]
process_chunk(self, chunk_text) ==
    LET acc         == self.accumulated \o chunk_text
        new_segment == SubSeq(acc, self.cursor + 1, Len(acc))
        drop        == /\ new_segment # <<>>
                       /\ self.synthetic_think_close_sent
                       /\ Contains(new_segment, THINK_CLOSE)
        segment     == IF drop THEN RemoveFirst(new_segment, THINK_CLOSE)
                       ELSE new_segment
        s1 == [self EXCEPT
                  !.accumulated = acc,
                  !.cursor = Len(acc),
                  !.synthetic_think_close_sent = IF drop THEN FALSE ELSE @,
                  !.pending_buffer = @ \o segment]
        result == parse_tool_calls(acc, NoTools)
    IN  IF tool_check(s1) /\ ~Contains(acc, tool_call_end_token)
        THEN [res |-> NoOutput, self |-> s1]
        ELSE IF tool_check(s1) /\ result.tools_called
        THEN tool_calls_branch(s1, result)
        ELSE content_branch(s1)

\* flush_pending: [res, self]
flush_pending(self) ==
    LET f == maybe_flush_buffer(self, TRUE)
    IN  IF f.raised THEN [res |-> Raised, self |-> self]
        ELSE IF f.out.none THEN [res |-> NoOutput, self |-> f.self]
        ELSE [res  |-> [type |-> "tail", text |-> f.out.s, calls |-> <<>>],
              self |-> f.self]

\* ------------------------------------------------- proxy/session_store.py
\* Number of append_message calls.
MaxAppends == 2

\* Last value of the clock (seconds).
MaxClock == 2

ttl_seconds == 1

SessionIds == {"s1", "s2"}

\* A session id that is None or "".
NoSession == ""

Threads == {"t1", "t2"}

\* Text that did not come from a stream.
Text(pieces) == [k \in 1..Len(pieces) |-> Tok(pieces[k], 0)]

\* A chat message (a dict).  name = "" and reasoning_details = <<>> stand
\* for an absent key; reasoning_details is the list of the details' texts.
Message(role, content, name, reasoning_details) ==
    [role |-> role, content |-> content, name |-> name,
     reasoning_details |-> reasoning_details]

\* None, or the empty dict: the falsy values of Optional[Dict].
NoMessage == Message("", <<>>, "", <<>>)

\* json.dumps / json.loads of a message: the payload is text, and only text
\* that json.dumps wrote decodes.
json_dumps(message) == [json |-> TRUE, text |-> message]

json_loads(payload) ==
    IF payload.json THEN [ok |-> TRUE, value |-> payload.text]
    ELSE [ok |-> FALSE, value |-> NoMessage]

Store ==
    [enabled |-> enabled, backend |-> backend, max_messages |-> max_messages,
     memory_store |-> memory_store, messages_table |-> messages_table]

LastN_head(s, n) ==
    IF n = 0 \/ Len(s) <= n THEN s ELSE SubSeq(s, 1, n)

\* s[-n:]
LastN(s, n) ==
    IF n = 0 \/ Len(s) <= n THEN s ELSE SubSeq(s, Len(s) - n + 1, Len(s))

\* The elements of s at the indices in keep, in the order of s.
AtIndices(s, keep) ==
    LET F[k \in 0..Len(s)] ==
            IF k = 0 THEN <<>>
            ELSE IF k \in keep THEN Append(F[k - 1], s[k]) ELSE F[k - 1]
    IN  F[Len(s)]

cleanup_locked_strict(self, time) ==
    IF ~self.enabled THEN self
    ELSE LET cutoff == time - ttl_seconds
         IN  IF cutoff <= 0 THEN self
             ELSE IF self.backend = "memory"
             THEN [self EXCEPT !.memory_store =
                     [s \in DOMAIN self.memory_store |->
                        LET filtered == SelectSeq(self.memory_store[s],
                                                  LAMBDA record : record.ts > cutoff)
                        IN  IF filtered # <<>> THEN LastN(filtered, self.max_messages)
                            ELSE <<>>]]
             ELSE [self EXCEPT !.messages_table =
                     SelectSeq(self.messages_table, LAMBDA row : row.ts > cutoff)]

\* Runs with the lock held; time is what time.time() returns then.
cleanup_locked(self, time) ==
    IF ~self.enabled THEN self
    ELSE LET cutoff == time - ttl_seconds
         IN  IF cutoff <= 0 THEN self
             ELSE IF self.backend = "memory"
             THEN [self EXCEPT !.memory_store =
                     [s \in DOMAIN self.memory_store |->
                        LET filtered == SelectSeq(self.memory_store[s],
                                                  LAMBDA record : record.ts >= cutoff)
                        IN  IF filtered # <<>> THEN LastN(filtered, self.max_messages)
                            ELSE <<>>]]
             ELSE [self EXCEPT !.messages_table =
                     SelectSeq(self.messages_table, LAMBDA row : ~(row.ts < cutoff))]

\* Rows of a session that ORDER BY ts DESC, rowid DESC LIMIT n selects; a row
\* is named by its place in the table, which is the order of the rowids.
TopByTsDesc(table, session_id, n) ==
    {i \in 1..Len(table) :
        /\ table[i].session_id = session_id
        /\ Cardinality({j \in 1..Len(table) :
              /\ table[j].session_id = session_id
              /\ \/ table[j].ts > table[i].ts
                 \/ table[j].ts = table[i].ts /\ j > i}) < n}

\* The rows of a session ORDER BY ts ASC, rowid ASC.
OrderByTsAsc(table, session_id) ==
    LET mine == {i \in 1..Len(table) : table[i].session_id = session_id}
        before(j, i) == \/ table[j].ts < table[i].ts
                        \/ table[j].ts = table[i].ts /\ j < i
        rank(i) == 1 + Cardinality({j \in mine : before(j, i)})
    IN  [k \in 1..Cardinality(mine) |-> table[CHOOSE i \in mine : rank(i) = k]]

\* The part of append_message that runs holding the lock; ts was read before.
append_locked(self, session_id, message, ts, time) ==
    LET c == cleanup_locked(self, time)
    IN  IF c.backend = "memory"
        THEN LET bucket == Append(c.memory_store[session_id],
                                  [ts |-> ts, role |-> message.role,
                                   payload |-> json_dumps(message)])
             IN  [c EXCEPT !.memory_store[session_id] =
                     IF Len(bucket) > c.max_messages
                     THEN LastN(bucket, c.max_messages) ELSE bucket]
        ELSE LET inserted == Append(c.messages_table,
                                    [session_id |-> session_id, ts |-> ts,
                                     role |-> message.role,
                                     payload |-> json_dumps(message)])
                 kept == {i \in 1..Len(inserted) :
                            \/ inserted[i].session_id # session_id
                            \/ i \in TopByTsDesc(inserted, session_id, c.max_messages)}
             IN  [c EXCEPT !.messages_table = AtIndices(inserted, kept)]

\* A read that gives up at an unreadable row.
load_session_locked_failing(self, session_id) ==
    IF ~self.enabled \/ session_id = NoSession THEN <<>>
    ELSE LET rows == IF self.backend = "memory" THEN self.memory_store[session_id]
                     ELSE OrderByTsAsc(self.messages_table, session_id)
         IN  IF \E k \in 1..Len(rows) : ~json_loads(rows[k].payload).ok THEN <<>>
             ELSE [k \in 1..Len(rows) |-> json_loads(rows[k].payload).value]

load_session_locked(self, session_id) ==
    IF ~self.enabled \/ session_id = NoSession THEN <<>>
    ELSE LET rows == IF self.backend = "memory" THEN self.memory_store[session_id]
                     ELSE OrderByTsAsc(self.messages_table, session_id)
             decoded == SelectSeq(rows, LAMBDA row : json_loads(row.payload).ok)
         IN  [k \in 1..Len(decoded) |-> json_loads(decoded[k].payload).value]

get_session_stale(self, session_id, time) ==
    IF ~self.enabled \/ session_id = NoSession THEN [value |-> <<>>, self |-> self]
    ELSE [value |-> load_session_locked(self, session_id), self |-> self]

get_session(self, session_id, time) ==
    IF ~self.enabled \/ session_id = NoSession THEN [value |-> <<>>, self |-> self]
    ELSE LET c == cleanup_locked(self, time)
         IN  [value |-> load_session_locked(c, session_id), self |-> c]

get_last_assistant(self, session_id, time) ==
    IF ~self.enabled \/ session_id = NoSession
    THEN [value |-> NoMessage, self |-> self]
    ELSE LET c == cleanup_locked(self, time)
             records == load_session_locked(c, session_id)
             found == {i \in 1..Len(records) : records[i].role = "assistant"}
         IN  [value |-> IF found = {} THEN NoMessage
                        ELSE records[CHOOSE i \in found : \A j \in found : j <= i],
              self  |-> c]

RECURSIVE Concat(_)
Concat(details) ==
    IF details = <<>> THEN <<>> ELSE Head(details) \o Concat(Tail(details))

normalize_assistant_message(message) ==
    IF message.role # "assistant" THEN message
    ELSE LET reasoning_text == Concat(message.reasoning_details)
             content == message.content
             msg_copy == [message EXCEPT !.reasoning_details = <<>>]
         IN  IF reasoning_text # <<>>
             THEN LET reason_block ==
                          Text(<<"<think>">>) \o reasoning_text \o Text(<<"</think>">>)
                          \o (IF content # <<>> /\ content[1].c # "\n"
                              THEN Text(<<"\n">>) ELSE <<>>)
                  IN  [msg_copy EXCEPT !.content = reason_block \o content]
             ELSE IF content # <<>> /\ Contains(content, THINK_CLOSE)
             THEN [msg_copy EXCEPT !.content = ensure_think_wrapped(content)]
             ELSE msg_copy

assistant_in_history_raw(messages, assistant) ==
    \/ assistant = NoMessage
    \/ \E i \in 1..Len(messages) :
          messages[i].role = "assistant" /\ messages[i] = assistant

\* A search that looks at the last message of the list only.
assistant_in_history_latest(messages, assistant) ==
    \/ assistant = NoMessage
    \/ /\ messages # <<>>
       /\ messages[Len(messages)].role = "assistant"
       /\ normalize_assistant_message(messages[Len(messages)])
              = normalize_assistant_message(assistant)

assistant_in_history(messages, assistant) ==
    \/ assistant = NoMessage
    \/ \E i \in 1..Len(messages) :
          /\ messages[i].role = "assistant"
          /\ normalize_assistant_message(messages[i])
                 = normalize_assistant_message(assistant)

\* RepairResult; None is written "None".
RepairResult(messages, repaired, reason, skipped, skip_reason) ==
    [messages |-> messages, repaired |-> repaired, reason |-> reason,
     skipped |-> skipped, skip_reason |-> skip_reason]

Skipped(messages, skip_reason) ==
    RepairResult(messages, FALSE, "None", TRUE, skip_reason)

insert_index_last(current_messages) ==
    LET hits == {idx \in 1..Len(current_messages) :
                    current_messages[idx].role = "tool"}
    IN  IF hits = {} THEN Len(current_messages)
        ELSE (CHOOSE idx \in hits : \A j \in hits : j <= idx) - 1

\* The index (from 0) of the first tool or tool_result message, the length
\* of the list when there is none.
insert_index(current_messages) ==
    LET hits == {idx \in 1..Len(current_messages) :
                    \/ current_messages[idx].role = "tool"
                    \/ /\ current_messages[idx].role = "user"
                       /\ current_messages[idx].name = "tool_result"}
    IN  IF hits = {} THEN Len(current_messages)
        ELSE (CHOOSE idx \in hits : \A j \in hits : idx <= j) - 1

repaired_messages_replacing(current_messages, at, stored_assistant) ==
    SubSeq(current_messages, 1, at) \o <<stored_assistant>>
        \o SubSeq(current_messages, at + 2, Len(current_messages))

repaired_messages(current_messages, at, stored_assistant) ==
    SubSeq(current_messages, 1, at) \o <<stored_assistant>>
        \o SubSeq(current_messages, at + 1, Len(current_messages))

\* The result, the caller's list as the call leaves it, and the store.
inject_or_repair(self, messages, session_id, require_session, time) ==
    IF ~self.enabled
    THEN [result |-> Skipped(messages, "disabled"),
          messages |-> messages, self |-> self]
    ELSE IF session_id = NoSession
    THEN [result |-> Skipped(messages, IF require_session THEN "missing_session_id"
                                       ELSE "missing_session_id_optional"),
          messages |-> messages, self |-> self]
    ELSE LET g == get_last_assistant(self, session_id, time)
             stored_assistant == g.value
             current_messages == messages
         IN  IF stored_assistant = NoMessage
             THEN [result |-> Skipped(messages, "no_history"),
                   messages |-> messages, self |-> g.self]
             ELSE IF assistant_in_history(current_messages, stored_assistant)
             THEN [result |-> Skipped(current_messages, "assistant_present"),
                   messages |-> messages, self |-> g.self]
             ELSE [result |-> RepairResult(
                                 repaired_messages(current_messages,
                                                   insert_index(current_messages),
                                                   stored_assistant),
                                 TRUE, "assistant_injected", FALSE, "None"),
                   messages |-> messages, self |-> g.self]

\* ---------------------------------------------------- proxy/models.py
\* What anthropic_messages_to_openai makes of a tool_result block.
tool_result_to_openai(tool_use_id, content) ==
    Message("user", Text(<<"Tool result for ", tool_use_id, ": ", content>>),
            "", <<>>)

\* ------------------------------------------------- the store's callers
IdleThread == [pc |-> "idle", session_id |-> NoSession, message |-> NoMessage, ts |-> 0]

NoCall ==
    [op |-> "none", session_id |-> NoSession, messages |-> <<>>,
     require_session |-> FALSE, value |-> <<>>, caller_messages |-> <<>>,
     at |-> 0, seen |-> 0]

\* A store that is switched off and never called.
StoreOff ==
    /\ enabled = FALSE
    /\ backend = "memory"
    /\ max_messages = 1
    /\ memory_store = [s \in SessionIds |-> <<>>]
    /\ messages_table = <<>>
    /\ clock = 0
    /\ threads = [t \in Threads |-> IdleThread]
    /\ appended = <<>>
    /\ returned = NoCall

\* ------------------------------------------------- tools.py, the encoder
\* str(value), or json.dumps(value) for a dict or a list: the literal of the
\* value, or the text of a str.
format_param_value_for_xml(value) ==
    IF value.t = "str" THEN value.s ELSE Text(<<value.lit>>)

\* The arguments of a call given to the encoder: a dict (or the JSON text of
\* one), whose items are in insertion order, or another value.
ArgumentsDict(items) == [dict |-> TRUE, items |-> items, value |-> PyNone]

ArgumentsOther(value) == [dict |-> FALSE, items |-> <<>>, value |-> value]

\* "\n".join(lines)
RECURSIVE JoinLines(_)
JoinLines(lines) ==
    IF lines = <<>> THEN <<>>
    ELSE IF Len(lines) = 1 THEN Head(lines)
    ELSE Head(lines) \o Text(<<"\n">>) \o JoinLines(Tail(lines))

InvokeOpen(name) ==
    IF name = "f" THEN "<invoke name=\"f\">" ELSE "<invoke name=\"g\">"

ParameterOpen(name) ==
    CASE name = "k" -> "<parameter name=\"k\">"
      [] name = "n" -> "<parameter name=\"n\">"
      [] OTHER      -> "<parameter name=\"input\">"

ParameterLines(name, value) ==
    <<Text(<<ParameterOpen(name)>>), format_param_value_for_xml(value),
      Text(<<"</parameter>">>)>>

RECURSIVE ItemsLines(_)
ItemsLines(items) ==
    IF items = <<>> THEN <<>>
    ELSE ParameterLines(Head(items).name, Head(items).value)
         \o ItemsLines(Tail(items))

RECURSIVE CallsLines(_)
CallsLines(tool_calls) ==
    IF tool_calls = <<>> THEN <<>>
    ELSE LET call == Head(tool_calls)
         IN  <<Text(<<InvokeOpen(call.name)>>)>>
             \o (IF call.arguments.dict THEN ItemsLines(call.arguments.items)
                 ELSE ParameterLines("input", call.arguments.value))
             \o <<Text(<<"</invoke>">>)>>
             \o CallsLines(Tail(tool_calls))

tool_calls_to_minimax_xml(tool_calls) ==
    IF tool_calls = <<>> THEN None
    ELSE Some(JoinLines(<<Text(tool_call_start_token)>> \o CallsLines(tool_calls)
                        \o <<Text(tool_call_end_token)>>))

\* No result yet.
NoResult == [tools_called |-> FALSE, tool_calls |-> <<>>, content |-> None]

\* A codec that is never used.
CodecOff ==
    [stage |-> "off", tool_calls |-> <<>>, tools |-> NoTools,
     model_output |-> None, result |-> NoResult]

\* ------------------------------------- main.py, stream_anthropic_response
\* The MiniMax branch of stream_anthropic_response for a request without
\* session id: the generator's local variables, the chunks it has taken from
\* the backend (received) and the events it has yielded.

\* Number of chunks the backend streams.
MaxBackendChunks == 3

\* settings.enable_anthropic_thinking_blocks
enable_anthropic_thinking_blocks == TRUE

\* One server-sent event of the Anthropic protocol.
Sse(event, index, type, text, id, name) ==
    [event |-> event, index |-> index, type |-> type, text |-> text,
     id |-> id, name |-> name]

format_message_start == Sse("message_start", 0, "", <<>>, "", "")

format_content_block_start(index, block_type) ==
    Sse("content_block_start", index, block_type, <<>>, "", "")

format_content_block_delta(index, delta, delta_type) ==
    Sse("content_block_delta", index, delta_type, delta, "", "")

format_tool_use_start(index, tool_id, tool_name) ==
    Sse("content_block_start", index, "tool_use", <<>>, tool_id, tool_name)

format_tool_input_delta(index, partial_json) ==
    Sse("content_block_delta", index, "input_json_delta", partial_json, "", "")

format_content_block_stop(index) ==
    Sse("content_block_stop", index, "", <<>>, "", "")

format_message_delta(stop_reason) ==
    Sse("message_delta", 0, stop_reason, <<>>, "", "")

format_message_stop == Sse("message_stop", 0, "", <<>>, "", "")

\* One element of a delta's tool_calls list: has_id, has_name and
\* has_arguments tell which keys it carries.
ToolCallDelta(index, has_id, id, has_name, name, has_arguments, arguments) ==
    [index |-> index, has_id |-> has_id, id |-> id, has_name |-> has_name,
     name |-> name, has_arguments |-> has_arguments, arguments |-> arguments]

\* One chunk of the backend's stream: choices[0].delta and finish_reason
\* ("" and <<>> stand for an absent or empty field, has_choices = FALSE for a
\* chunk without choices).
BackendChunk(reasoning_content, content, tool_calls, finish_reason) ==
    [has_choices |-> TRUE, reasoning_content |-> reasoning_content,
     content |-> content, tool_calls |-> tool_calls,
     finish_reason |-> finish_reason]

Yield(a, e) == [a EXCEPT !.yielded = Append(@, e)]

\* Lines 1180-1189.
handle_reasoning_delta(a, reasoning_delta) ==
    IF reasoning_delta # <<>> /\ enable_anthropic_thinking_blocks
    THEN LET a1 == IF ~a.thinking_block_started
                   THEN [Yield(a, format_content_block_start(
                                      a.content_block_index, "thinking"))
                            EXCEPT !.thinking_block_started = TRUE]
                   ELSE a
         IN  Yield(a1, format_content_block_delta(a1.content_block_index,
                                                  reasoning_delta, "thinking_delta"))
    ELSE a

\* Lines 1191-1209.
handle_content_delta(a, content_delta) ==
    IF content_delta # <<>>
    THEN LET a1 == IF a.thinking_block_started /\ enable_anthropic_thinking_blocks
                   THEN [Yield(a, format_content_block_stop(a.content_block_index))
                            EXCEPT !.content_block_index = @ + 1,
                                   !.thinking_block_started = FALSE]
                   ELSE a
             a2 == IF ~a1.content_block_started
                   THEN [Yield(a1, format_content_block_start(
                                       a1.content_block_index, "text"))
                            EXCEPT !.content_block_started = TRUE]
                   ELSE a1
         IN  [Yield(a2, format_content_block_delta(a2.content_block_index,
                                                   content_delta, "text_delta"))
                 EXCEPT !.text_emitted = TRUE]
    ELSE a

\* captured_tool_calls[idx], created empty when idx is new, updated with the
\* keys of tc_delta (lines 1230-1246); the calls are kept in index order.
EmptyCall(idx) == [index |-> idx, id |-> "", name |-> "", arguments |-> <<>>]

RECURSIVE InsertByIndex(_, _)
InsertByIndex(calls, call) ==
    IF calls = <<>> \/ call.index < Head(calls).index THEN <<call>> \o calls
    ELSE <<Head(calls)>> \o InsertByIndex(Tail(calls), call)

buffer_tool_call(calls, tc_delta) ==
    LET known == IF \E k \in 1..Len(calls) : calls[k].index = tc_delta.index
                 THEN calls ELSE InsertByIndex(calls, EmptyCall(tc_delta.index))
    IN  [k \in 1..Len(known) |->
            IF known[k].index # tc_delta.index THEN known[k]
            ELSE [index |-> known[k].index,
                  id |-> IF tc_delta.has_id THEN tc_delta.id ELSE known[k].id,
                  name |-> IF tc_delta.has_name THEN tc_delta.name
                           ELSE known[k].name,
                  arguments |-> IF tc_delta.has_arguments
                                THEN known[k].arguments \o tc_delta.arguments
                                ELSE known[k].arguments]]

RECURSIVE buffer_tool_calls(_, _)
buffer_tool_calls(calls, tool_calls_delta) ==
    IF tool_calls_delta = <<>> THEN calls
    ELSE buffer_tool_calls(buffer_tool_call(calls, Head(tool_calls_delta)),
                           Tail(tool_calls_delta))

\* Lines 1211-1246.
handle_tool_calls_delta(a, tool_calls_delta) ==
    IF tool_calls_delta # <<>>
    THEN LET a1 == IF a.content_block_started
                   THEN [Yield(a, format_content_block_stop(a.content_block_index))
                            EXCEPT !.content_block_index = @ + 1,
                                   !.content_block_started = FALSE]
                   ELSE a
             a2 == IF a1.thinking_block_started
                   THEN [Yield(a1, format_content_block_stop(a1.content_block_index))
                            EXCEPT !.content_block_index = @ + 1,
                                   !.thinking_block_started = FALSE]
                   ELSE a1
         IN  [a2 EXCEPT !.captured_tool_calls =
                            buffer_tool_calls(@, tool_calls_delta)]
    ELSE a

\* Lines 1315-1337: one tool_use block for every buffered call.
RECURSIVE emit_tool_calls(_, _)
emit_tool_calls(a, calls) ==
    IF calls = <<>> THEN a
    ELSE LET tool_call == Head(calls)
             a1 == Yield(a, format_tool_use_start(a.content_block_index,
                                                  tool_call.id, tool_call.name))
             a2 == IF tool_call.arguments # <<>>
                   THEN Yield(a1, format_tool_input_delta(a1.content_block_index,
                                                          tool_call.arguments))
                   ELSE a1
         IN  emit_tool_calls(
                 [Yield(a2, format_content_block_stop(a2.content_block_index))
                     EXCEPT !.content_block_index = @ + 1],
                 Tail(calls))

\* Lines 1303-1348; StreamingParser.has_tool_calls() is false, the parser
\* being given no text (the branch that feeds it is disabled, line 1249).
handle_finish_reason(a, finish_reason) ==
    IF finish_reason # ""
    THEN LET a1 == IF a.content_block_started
                   THEN [Yield(a, format_content_block_stop(a.content_block_index))
                            EXCEPT !.content_block_started = FALSE]
                   ELSE a
             a2 == IF a1.thinking_block_started
                   THEN [Yield(a1, format_content_block_stop(a1.content_block_index))
                            EXCEPT !.thinking_block_started = FALSE]
                   ELSE a1
             a3 == emit_tool_calls(a2, a2.captured_tool_calls)
             overridden == IF finish_reason = "stop" /\ a3.captured_tool_calls # <<>>
                           THEN "tool_calls" ELSE finish_reason
             stop_reason == CASE overridden = "tool_calls" -> "tool_use"
                              [] overridden = "stop"       -> "end_turn"
                              [] OTHER                     -> overridden
         IN  Yield(a3, format_message_delta(stop_reason))
    ELSE a

\* The body of the loop over the backend's chunks, lines 1173-1348.
anthropic_chunk(a, chunk) ==
    IF ~chunk.has_choices THEN a
    ELSE handle_finish_reason(
             handle_tool_calls_delta(
                 handle_content_delta(
                     handle_reasoning_delta(a, chunk.reasoning_content),
                     chunk.content),
                 chunk.tool_calls),
             chunk.finish_reason)

Placeholder ==
    <<Tok("(MiniMax stopped before it could produce a visible reply.)", 0)>>

\* After the loop, lines 1350-1363.
anthropic_stop(a) ==
    LET a1 == IF a.thinking_block_started
              THEN [Yield(a, format_content_block_stop(a.content_block_index))
                       EXCEPT !.thinking_block_started = FALSE]
              ELSE a
        a2 == IF ~a1.text_emitted /\ a1.captured_tool_calls = <<>>
              THEN Yield(Yield(Yield(a1,
                       format_content_block_start(a1.content_block_index, "text")),
                       format_content_block_delta(a1.content_block_index,
                                                  Placeholder, "text_delta")),
                       format_content_block_stop(a1.content_block_index))
              ELSE a1
    IN  Yield(a2, format_message_stop)

\* A stream that is never served.
AnthropicOff ==
    [stage |-> "off", content_block_index |-> 0, content_block_started |-> FALSE,
     thinking_block_started |-> FALSE, text_emitted |-> FALSE,
     captured_tool_calls |-> <<>>, received |-> <<>>, yielded |-> <<>>]

\* ------------------------------------------- reasoning.py, split_think
\* A splitter that handles the first marker pair only.
split_think_first_pair(text) ==
    LET open_idx  == Find(text, THINK_OPEN, 1)
        close_idx == Find(text, THINK_CLOSE, 1)
    IN  IF open_idx = 0 /\ close_idx = 0
        THEN [reasoning |-> <<>>, visible |-> text]
        ELSE IF close_idx = 0
        THEN [reasoning |-> SubSeq(text, open_idx + Len(THINK_OPEN), Len(text)),
              visible   |-> SubSeq(text, 1, open_idx - 1)]
        ELSE IF open_idx # 0 /\ open_idx < close_idx
        THEN [reasoning |-> SubSeq(text, open_idx + Len(THINK_OPEN), close_idx - 1),
              visible   |-> SubSeq(text, 1, open_idx - 1)
                            \o SubSeq(text, close_idx + Len(THINK_CLOSE), Len(text))]
        ELSE [reasoning |-> SubSeq(text, 1, close_idx - 1),
              visible   |-> SubSeq(text, close_idx + Len(THINK_CLOSE), Len(text))]

\* split_think(text): the reasoning text and the visible text.
RECURSIVE split_think(_)
split_think(text) ==
    IF text = <<>> THEN [reasoning |-> <<>>, visible |-> <<>>]
    ELSE LET open_idx  == Find(text, THINK_OPEN, 1)
             close_idx == Find(text, THINK_CLOSE, 1)
         IN  IF open_idx = 0 /\ close_idx = 0
             THEN [reasoning |-> <<>>, visible |-> text]
             ELSE IF open_idx # 0 /\ (close_idx = 0 \/ open_idx < close_idx)
             THEN LET before    == SubSeq(text, 1, open_idx - 1)
                      remaining == SubSeq(text, open_idx + Len(THINK_OPEN), Len(text))
                      close     == Find(remaining, THINK_CLOSE, 1)
                      rest      == split_think(SubSeq(remaining,
                                                      close + Len(THINK_CLOSE),
                                                      Len(remaining)))
                  IN  IF close = 0
                      THEN [reasoning |-> remaining, visible |-> before]
                      ELSE [reasoning |-> SubSeq(remaining, 1, close - 1)
                                          \o rest.reasoning,
                            visible   |-> before \o rest.visible]
             ELSE LET rest == split_think(SubSeq(text, close_idx + Len(THINK_CLOSE),
                                                 Len(text)))
                  IN  [reasoning |-> SubSeq(text, 1, close_idx - 1) \o rest.reasoning,
                       visible   |-> rest.visible]

\* ------------------------------- StreamingParser, as main.py calls it
\* The parser behind process_chunk, flush_pending and has_tool_calls of
\* main.py: the state machine of the specification's section 4.3.
NewStreamingParser ==
    [rawBuffer |-> <<>>, sentOffset |-> 0, resolution |-> "undetermined",
     openingSynthesized |-> FALSE, toolCallsEmitted |-> FALSE]

\* process_chunk or flush_pending returning None.
NoEvent ==
    [type |-> "none", raw_delta |-> None, content_delta |-> None,
     reasoning_delta |-> None, tool_calls |-> <<>>]

OrNone(s) == IF s = <<>> THEN None ELSE Some(s)

\* The unsent text up to position upto as one event: the raw delta, with the
\* opening marker synthesized when this is the first delta of a turn resolved
\* positively, and its reasoning and visible parts as the splitter gives
\* them.
Emit(p, type, upto, tool_calls) ==
    LET delta == SubSeq(p.rawBuffer, p.sentOffset + 1, upto)
        first == p.resolution = "positive" /\ p.sentOffset = 0
                 /\ ~p.openingSynthesized
        raw   == IF first THEN ensure_think_wrapped(delta) ELSE delta
        split == split_think(raw)
        self  == [p EXCEPT !.sentOffset = IF upto > @ THEN upto ELSE @,
                           !.openingSynthesized = @ \/ raw # delta]
    IN  IF delta = <<>> /\ tool_calls = <<>>
        THEN [self |-> self, parsed |-> NoEvent]
        ELSE [self |-> self,
              parsed |-> [type |-> type, raw_delta |-> OrNone(raw),
                          content_delta |-> OrNone(split.visible),
                          reasoning_delta |-> OrNone(split.reasoning),
                          tool_calls |-> tool_calls]]

\* End of the last call-block end marker of s, 0 when it has none.
LastEnd(s) ==
    LET hits == {i \in 1..Len(s) : MatchAt(s, tool_call_end_token, i)}
    IN  IF hits = {} THEN 0
        ELSE (CHOOSE i \in hits : \A j \in hits : j <= i)
             + Len(tool_call_end_token) - 1

\* The batch event of a buffer that holds a complete call-block: the decoded
\* calls with the unsent text before the start marker, the whole call-block
\* region consumed; no event when the decoding yields no call.
Consumed(event, upto) ==
    [self   |-> [event.self EXCEPT !.toolCallsEmitted = TRUE,
                                   !.sentOffset = upto],
     parsed |-> event.parsed]

EmitBatch(p, start, result) ==
    IF ~result.tools_called THEN [self |-> p, parsed |-> NoEvent]
    ELSE Consumed(Emit(p, "tool_calls", start - 1, result.tool_calls),
                  LastEnd(p.rawBuffer))

\* StreamingParser.process_chunk(fragment)
streaming_process_chunk(p, fragment, tools) ==
    LET buf == p.rawBuffer \o fragment
        resolution ==
            IF p.resolution # "undetermined" THEN p.resolution
            ELSE IF Contains(buf, THINK_CLOSE) THEN "positive"
            ELSE IF Contains(buf, tool_call_start_token) THEN "negative"
            ELSE "undetermined"
        self  == [p EXCEPT !.rawBuffer = buf, !.resolution = resolution]
        start == IF p.toolCallsEmitted THEN 0
                 ELSE Find(buf, tool_call_start_token, 1)
    IN  IF resolution = "undetermined" THEN [self |-> self, parsed |-> NoEvent]
        ELSE IF start = 0 THEN Emit(self, "content", Len(buf), <<>>)
        ELSE IF ~Contains(buf, tool_call_end_token)
        THEN Emit(self, "content", start - 1, <<>>)
        ELSE EmitBatch(self, start, parse_tool_calls(buf, tools))

\* StreamingParser.flush_pending()
streaming_flush_pending(p) == Emit(p, "content", Len(p.rawBuffer), <<>>)

\* StreamingParser.has_tool_calls()
streaming_has_tool_calls(p) == p.toolCallsEmitted

\* ---------------------------------------- main.py, stream_openai_response
\* The MiniMax branch of stream_openai_response for a request without
\* session id and without tool definitions; final_raw_content,
\* final_reasoning_text and final_tool_calls, which are only read to store
\* the turn of a session, are left out.

\* OpenAIFormatter.format_streaming_chunk
format_streaming_chunk(delta, tool_calls, finish_reason, reasoning_delta) ==
    [kind |-> "chunk", content |-> delta, reasoning_details |-> reasoning_delta,
     tool_calls |-> tool_calls, finish_reason |-> finish_reason]

\* OpenAIFormatter.format_streaming_done
format_streaming_done ==
    [kind |-> "done", content |-> None, reasoning_details |-> None,
     tool_calls |-> <<>>, finish_reason |-> ""]

\* OpenAIFormatter.format_tool_call_stream: the chunk that announces the
\* call and the chunk that carries its arguments.
format_tool_call_stream(tool_call, index) ==
    <<format_streaming_chunk(None,
          <<[index |-> index, has_id |-> TRUE, id |-> "call_uuid",
             has_name |-> TRUE, name |-> tool_call.name,
             has_arguments |-> FALSE, arguments |-> <<>>]>>, "", None),
      format_streaming_chunk(None,
          <<[index |-> index, has_id |-> FALSE, id |-> "",
             has_name |-> FALSE, name |-> "",
             has_arguments |-> TRUE, arguments |-> tool_call.arguments]>>,
          "", None)>>

RECURSIVE tool_call_chunks(_, _)
tool_call_chunks(tool_calls, idx) ==
    IF tool_calls = <<>> THEN <<>>
    ELSE format_tool_call_stream(Head(tool_calls), idx)
         \o tool_call_chunks(Tail(tool_calls), idx + 1)

YieldAll(o, chunks) == [o EXCEPT !.yielded = @ \o chunks]

\* Line 622, written for a client given the raw text whatever it asked.
delta_for_client_raw(reasoning_split, raw_delta, visible_delta) == raw_delta

\* Line 622.
delta_for_client(reasoning_split, raw_delta, visible_delta) ==
    IF ~reasoning_split THEN raw_delta ELSE visible_delta

\* Lines 612-651: what legacy_stream does with an event of the parser.
legacy_parsed(o, parsed) ==
    LET reasoning_delta == parsed.reasoning_delta
        raw_delta       == parsed.raw_delta.s
        visible_delta   == parsed.content_delta.s
        for_client      == delta_for_client(o.reasoning_split, raw_delta,
                                            visible_delta)
        reasoning_chunk == format_streaming_chunk(None, <<>>, "", reasoning_delta)
    IN  CASE parsed.type = "content" ->
               IF for_client # <<>> \/ (o.reasoning_split /\ Truthy(reasoning_delta))
               THEN YieldAll(o, <<format_streaming_chunk(
                                     OrNone(for_client), <<>>, "",
                                     IF o.reasoning_split THEN reasoning_delta
                                     ELSE None)>>)
               ELSE o
          [] parsed.type = "tool_calls" ->
               YieldAll(o,
                   (IF raw_delta = <<>> /\ o.reasoning_split
                       /\ Truthy(reasoning_delta)
                    THEN <<reasoning_chunk>> ELSE <<>>)
                   \o tool_call_chunks(parsed.tool_calls, 0))
          [] parsed.type = "reasoning" ->
               IF o.reasoning_split /\ Truthy(reasoning_delta)
               THEN YieldAll(o, <<reasoning_chunk>>) ELSE o
          [] OTHER -> o

\* Lines 655-671 and 680-696: flush_pending and the chunk sent for its tail.
legacy_flush(o) ==
    LET flushed         == streaming_flush_pending(o.streaming_parser)
        pending_tail    == flushed.parsed
        raw_delta       == pending_tail.raw_delta.s
        reasoning_delta == pending_tail.reasoning_delta
        sendable_raw_delta ==
            IF raw_delta # <<>> /\ ~Contains(raw_delta, tool_call_start_token)
            THEN Some(raw_delta) ELSE None
        o1 == [o EXCEPT !.streaming_parser = flushed.self]
    IN  IF pending_tail.type # "none"
           /\ (Truthy(sendable_raw_delta)
               \/ (o.reasoning_split /\ Truthy(reasoning_delta)))
        THEN YieldAll(o1, <<format_streaming_chunk(
                                sendable_raw_delta, <<>>, "",
                                IF o.reasoning_split THEN reasoning_delta
                                ELSE None)>>)
        ELSE o1

\* Lines 672-678: the chunk that ends the loop.
legacy_finish_chunk(o, finish_reason) ==
    [YieldAll(o, <<format_streaming_chunk(
                       None, <<>>,
                       IF finish_reason = "stop"
                          /\ streaming_has_tool_calls(o.streaming_parser)
                       THEN "tool_calls" ELSE finish_reason,
                       None)>>)
        EXCEPT !.finished = TRUE]

\* Lines 653-678: the chunk that carries a finish_reason ends the loop.
legacy_finish(o, finish_reason) ==
    IF finish_reason # "" THEN legacy_finish_chunk(legacy_flush(o), finish_reason)
    ELSE o

\* Lines 610-612: the parser's new state and what legacy_stream does with
\* its event.
legacy_processed(o, processed) ==
    legacy_parsed([o EXCEPT !.streaming_parser = processed.self], processed.parsed)

\* Lines 607-651.
legacy_content(o, content_delta) ==
    IF content_delta # <<>>
    THEN legacy_processed(o, streaming_process_chunk(o.streaming_parser,
                                                     content_delta, NoTools))
    ELSE o

\* The body of legacy_stream's loop, lines 601-678.
legacy_chunk(o, chunk) ==
    IF ~chunk.has_choices THEN o
    ELSE legacy_finish(legacy_content(o, chunk.content), chunk.finish_reason)

\* tool_buffers[idx], created when idx is new, merged with one delta
\* (merge_tool_call_delta, lines 449-467); the entries are kept in index
\* order, and an id of "" stands for None.
merge_tool_call(buffers, call) ==
    LET known == IF \E k \in 1..Len(buffers) : buffers[k].index = call.index
                 THEN buffers ELSE InsertByIndex(buffers, EmptyCall(call.index))
    IN  [k \in 1..Len(known) |->
            IF known[k].index # call.index THEN known[k]
            ELSE [index |-> known[k].index,
                  id |-> IF call.has_id /\ call.id # "" THEN call.id
                         ELSE known[k].id,
                  name |-> IF call.has_name /\ call.name # "" THEN call.name
                           ELSE known[k].name,
                  arguments |-> IF call.has_arguments
                                THEN known[k].arguments \o call.arguments
                                ELSE known[k].arguments]]

RECURSIVE merge_tool_call_delta(_, _)
merge_tool_call_delta(buffers, delta_list) ==
    IF delta_list = <<>> THEN buffers
    ELSE merge_tool_call_delta(merge_tool_call(buffers, Head(delta_list)),
                               Tail(delta_list))

close_text == <<Tok("</think>", 0), Tok("\n", 0)>>

\* The body of structured_stream's loop, lines 488-578.
structured_chunk(o, chunk) ==
    IF ~chunk.has_choices THEN o
    ELSE LET reasoning_delta == chunk.reasoning_content
             content_delta   == chunk.content
             tool_delta      == chunk.tool_calls
             finish_reason   == chunk.finish_reason
             close_chunk ==
                 IF ~o.reasoning_split
                 THEN <<format_streaming_chunk(Some(close_text), <<>>, "", None)>>
                 ELSE <<>>
             \* lines 499-516
             o1 == IF reasoning_delta # <<>>
                   THEN LET addition == IF ~o.think_started
                                        THEN <<Tok("<think>", 0)>> \o reasoning_delta
                                        ELSE reasoning_delta
                        IN  [YieldAll(o, <<IF o.reasoning_split
                                           THEN format_streaming_chunk(
                                                    None, <<>>, "",
                                                    Some(reasoning_delta))
                                           ELSE format_streaming_chunk(
                                                    Some(addition), <<>>, "",
                                                    None)>>)
                                EXCEPT !.think_closed =
                                           IF ~o.think_started THEN FALSE ELSE @,
                                       !.think_started = TRUE]
                   ELSE o
             \* lines 518-528
             o2 == IF reasoning_delta = <<>> /\ o1.think_started
                      /\ ~o1.think_closed
                      /\ (content_delta # <<>> \/ tool_delta # <<>>
                          \/ finish_reason # "")
                   THEN [YieldAll(o1, close_chunk) EXCEPT !.think_closed = TRUE]
                   ELSE o1
             \* lines 530-536
             o3 == IF content_delta # <<>>
                   THEN YieldAll(o2, <<format_streaming_chunk(
                                           Some(content_delta), <<>>, "", None)>>)
                   ELSE o2
             \* lines 538-543
             o4 == IF tool_delta # <<>>
                   THEN [YieldAll(o3, <<format_streaming_chunk(
                                            None, tool_delta, "", None)>>)
                            EXCEPT !.tool_buffers =
                                       merge_tool_call_delta(@, tool_delta)]
                   ELSE o3
             \* lines 545-578
             o5 == IF o4.think_started /\ ~o4.think_closed
                   THEN [YieldAll(o4, close_chunk) EXCEPT !.think_closed = TRUE]
                   ELSE o4
             final_finish_reason ==
                 IF finish_reason = "stop" /\ o5.tool_buffers # <<>>
                 THEN "tool_calls" ELSE finish_reason
         IN  IF finish_reason # ""
             THEN [YieldAll(o5, <<format_streaming_chunk(
                                      None, <<>>, final_finish_reason, None)>>)
                      EXCEPT !.finished = TRUE]
             ELSE o4

\* Lines 727-737: the first chunk chooses between structured_stream and
\* legacy_stream, and every chunk up to the one that carries a finish_reason
\* goes through the chosen loop; the chunks after it are drained (lines 589
\* and 703).
legacy_after_loop(o) == IF o.finished THEN legacy_flush(o) ELSE o

openai_route(o, chunk) ==
    IF o.structured_mode THEN structured_chunk(o, chunk)
    ELSE legacy_after_loop(legacy_chunk(o, chunk))

openai_chunk(o, chunk) ==
    IF o.finished THEN [o EXCEPT !.drained = @ + 1]
    ELSE openai_route(
             [o EXCEPT !.structured_mode =
                           IF o.received = <<>>
                           THEN chunk.has_choices /\ chunk.reasoning_content # <<>>
                           ELSE @,
                       !.received = Append(@, chunk)],
             chunk)

\* The backend's stream ends: an empty stream is answered by [DONE] alone
\* (lines 721-725); otherwise legacy_stream flushes the parser once more
\* (lines 680-696) unless it has done so after the loop, and [DONE] follows
\* (line 752).
openai_done(o) ==
    LET o1 == IF o.received # <<>> /\ ~o.structured_mode /\ ~o.finished
              THEN legacy_flush(o) ELSE o
    IN  YieldAll(o1, <<format_streaming_done>>)

\* A stream that is never served.
OpenAIOff ==
    [stage |-> "off", reasoning_split |-> FALSE, structured_mode |-> FALSE,
     finished |-> FALSE, drained |-> 0, received |-> <<>>, yielded |-> <<>>,
     streaming_parser |-> NewStreamingParser, think_started |-> FALSE,
     think_closed |-> FALSE, tool_buffers |-> <<>>]

\* ---------------------------------- StreamingParser.process_delta
\* StreamingParser after reset() (streaming.py, lines 26-34); results holds
\* what the process_delta calls have returned so far.
NewDeltaParser ==
    [accumulated_text |-> <<>>, previous_text |-> <<>>, in_tool_call |-> FALSE,
     tool_call_started |-> FALSE, sent_tool_calls |-> <<>>, results |-> <<>>]

\* A parser that is never fed.
DeltaParserOff == [NewDeltaParser EXCEPT !.results = <<[type |-> "off"]>>]

\* s[n:]
SliceFrom(s, n) ==
    IF n >= 0 THEN SubSeq(s, n + 1, Len(s))
    ELSE IF Len(s) + n >= 0 THEN SubSeq(s, Len(s) + n + 1, Len(s))
    ELSE s

ReturnContent(p, delta) ==
    [p EXCEPT !.results = Append(@, [type |-> "content", delta |-> delta])]

ReturnToolCalls(p, tool_calls) ==
    [p EXCEPT !.results = Append(@, [type |-> "tool_calls",
                                     tool_calls |-> tool_calls])]

ReturnNone(p) == [p EXCEPT !.results = Append(@, [type |-> "none"])]

\* Lines 98-113: regular content streaming.
delta_regular(p) ==
    IF ~p.in_tool_call /\ Len(p.accumulated_text) > Len(p.previous_text)
    THEN LET new_content == SliceFrom(p.accumulated_text, Len(p.previous_text))
             p1 == [p EXCEPT !.previous_text = p.accumulated_text]
         IN  IF ~Contains(new_content, tool_call_start_token)
             THEN ReturnContent(p1, new_content)
             ELSE ReturnNone(p1)
    ELSE ReturnNone(p)

\* Lines 84-96: the calls parsed from the accumulated text.
delta_parsed(p, result) ==
    LET new_tool_calls == SliceFrom(result.tool_calls, Len(p.sent_tool_calls))
    IN  IF result.tools_called /\ new_tool_calls # <<>>
        THEN ReturnToolCalls([p EXCEPT !.sent_tool_calls = @ \o new_tool_calls],
                             new_tool_calls)
        ELSE delta_regular([p EXCEPT !.in_tool_call = FALSE])

\* Lines 81-96: leaving a call-block.
delta_exiting(p) ==
    IF p.in_tool_call /\ Contains(p.accumulated_text, tool_call_end_token)
    THEN delta_parsed(p, parse_tool_calls(p.accumulated_text, NoTools))
    ELSE delta_regular(p)

\* Lines 70-79: the text before the start marker; previous_text is assigned
\* before the slice is taken.
delta_content_before(p, content_before) ==
    IF content_before # <<>> /\ content_before # p.previous_text
    THEN LET p1 == [p EXCEPT !.previous_text = content_before]
         IN  ReturnContent(p1, SliceFrom(content_before,
                                         Len(p1.previous_text) - Len(content_before)))
    ELSE delta_exiting(p)

\* Lines 65-79: entering a call-block.
delta_entering(p) ==
    IF ~p.tool_call_started /\ Contains(p.accumulated_text, tool_call_start_token)
    THEN delta_content_before(
             [p EXCEPT !.tool_call_started = TRUE, !.in_tool_call = TRUE],
             SubSeq(p.accumulated_text, 1,
                    Find(p.accumulated_text, tool_call_start_token, 1) - 1))
    ELSE delta_exiting(p)

\* process_delta(delta_text): the parser after the call, its result appended
\* to results.
process_delta(p, delta_text) ==
    delta_entering([p EXCEPT !.accumulated_text = @ \o delta_text])

\* ------------------- stream_anthropic_response, a model passed through
\* The local variables of the pass-through branch (main.py, lines 1018-1107),
\* the chunks taken from the backend and the events yielded.
PassthroughOff ==
    [stage |-> "off", content_block_index |-> 0, content_block_started |-> FALSE,
     tool_calls_buffer |-> <<>>, received |-> <<>>, yielded |-> <<>>]

\* Lines 1049-1057.
passthrough_content_delta(a, content_delta) ==
    IF content_delta # <<>>
    THEN LET a1 == IF ~a.content_block_started
                   THEN [Yield(a, format_content_block_start(
                                      a.content_block_index, "text"))
                            EXCEPT !.content_block_started = TRUE]
                   ELSE a
         IN  Yield(a1, format_content_block_delta(a1.content_block_index,
                                                  content_delta, "text_delta"))
    ELSE a

\* Lines 1059-1077.
passthrough_tool_calls_delta(a, tool_calls_delta) ==
    [a EXCEPT !.tool_calls_buffer = buffer_tool_calls(@, tool_calls_delta)]

\* format_tool_use_delta (formatters/anthropic.py, lines 172-183) and the
\* block's stop, for each buffered call in index order (lines 1086-1091).
RECURSIVE passthrough_send_tool_calls(_, _)
passthrough_send_tool_calls(a, calls) ==
    IF calls = <<>> THEN a
    ELSE LET call == Head(calls)
             a1 == Yield(a, format_tool_use_start(a.content_block_index,
                                                  call.id, call.name))
             a2 == IF call.arguments # <<>>
                   THEN Yield(a1, format_tool_input_delta(a1.content_block_index,
                                                          call.arguments))
                   ELSE a1
         IN  passthrough_send_tool_calls(
                 [Yield(a2, format_content_block_stop(a2.content_block_index))
                     EXCEPT !.content_block_index = @ + 1],
                 Tail(calls))

\* Lines 1093-1098: the stop reason sent for the backend's finish reason.
passthrough_stop_reason(finish_reason) ==
    IF finish_reason = "tool_calls" THEN "tool_use"
    ELSE IF finish_reason = "stop" THEN "end_turn"
    ELSE finish_reason

\* Lines 1079-1100: the chunk that carries a finish reason ends the loop.
passthrough_finish(a, finish_reason) ==
    LET a1 == IF a.content_block_started
              THEN [Yield(a, format_content_block_stop(a.content_block_index))
                       EXCEPT !.content_block_index = @ + 1]
              ELSE a
        a2 == passthrough_send_tool_calls(a1, a1.tool_calls_buffer)
    IN  [Yield(Yield(a2, format_message_delta(passthrough_stop_reason(finish_reason))),
               format_message_stop)
            EXCEPT !.stage = "done"]

\* The body of the loop over the backend's chunks, lines 1044-1100, and
\* message_stop after the break (line 1102).
passthrough_chunk(a, chunk) ==
    LET a0 == [a EXCEPT !.received = Append(@, chunk)]
    IN  IF ~chunk.has_choices THEN a0
        ELSE LET a1 == passthrough_tool_calls_delta(
                           passthrough_content_delta(a0, chunk.content),
                           chunk.tool_calls)
             IN  IF chunk.finish_reason # ""
                 THEN passthrough_finish(a1, chunk.finish_reason)
                 ELSE a1

\* The backend's stream ends without a finish reason, line 1102.
passthrough_end(a) == [Yield(a, format_message_stop) EXCEPT !.stage = "done"]

\* ------------------------------------------------------------ the turn
\* The fragments the backend may deliver as one chunk.
Block == <<"<minimax:", "tool_call>", "<invoke name=\"f\">", "</invoke>",
           "</minimax:", "tool_call>">>

Chunks ==
    { <<>>,
      <<"X">>,
      <<"a">>,
      <<"r", "</think>", "\n">>,
      <<"<minimax:">>,
      <<"tool_call>">>,
      Block,
      <<"b", " ", "<minimax:", "tool_call>", "<invoke name=\"f\">", "</invoke>",
        "<invoke name=\"g\">", "</invoke>", "</minimax:", "tool_call>", "c">>,
      <<"<minimax:", "tool_call>", "<invoke name=\"g\">">>,
      <<"</invoke>", "</minimax:", "tool_call>", "d">> }

\* A chunk as it arrives: its tokens numbered by their place in the stream.
Arrive(v, offset) == [k \in 1..Len(v) |-> Tok(v[k], offset + k)]

NumCalls(op) == Cardinality({k \in 1..Len(events) : events[k].op = op})

SetSelf(self) ==
    /\ accumulated' = self.accumulated
    /\ cursor' = self.cursor
    /\ tools_sent' = self.tools_sent
    /\ pending_buffer' = self.pending_buffer
    /\ ready_to_emit' = self.ready_to_emit
    /\ emitted_content' = self.emitted_content
    /\ synthetic_think_close_sent' = self.synthetic_think_close_sent

Record(op, r) ==
    events' = Append(events, [op |-> op, type |-> r.res.type, text |-> r.res.text,
                              calls |-> r.res.calls,
                              at |-> Len(r.self.accumulated)])

\* SimpleStreamingParser() at the start of a turn.
ParserInit ==
    /\ accumulated = <<>>
    /\ cursor = 0
    /\ tools_sent = FALSE
    /\ pending_buffer = <<>>
    /\ ready_to_emit = FALSE
    /\ emitted_content = FALSE
    /\ synthetic_think_close_sent = FALSE
    /\ events = <<>>
    /\ pc = "streaming"

Init ==
    /\ ParserInit
    /\ StoreOff
    /\ texts = <<>>
    /\ codec = CodecOff
    /\ anthropic = AnthropicOff
    /\ openai = OpenAIOff
    /\ delta_parser = DeltaParserOff
    /\ passthrough = PassthroughOff

ProcessChunk(v) ==
    /\ pc = "streaming"
    /\ NumCalls("chunk") < MaxChunks
    /\ LET r == process_chunk(Self, Arrive(v, Len(accumulated)))
       IN  /\ SetSelf(r.self)
           /\ Record("chunk", r)
           /\ pc' = IF r.res.type = "raise" THEN "raised" ELSE "streaming"
    /\ UNCHANGED <<storeVars, texts, codec, streamVars>>

FlushPending ==
    /\ pc \in {"streaming", "flushed"}
    /\ NumCalls("flush") < MaxFlush
    /\ LET r == flush_pending(Self)
       IN  /\ SetSelf(r.self)
           /\ Record("flush", r)
           /\ pc' = IF r.res.type = "raise" THEN "raised" ELSE "flushed"
    /\ UNCHANGED <<storeVars, texts, codec, streamVars>>

Next ==
    \/ \E v \in Chunks : ProcessChunk(v)
    \/ FlushPending

Spec == Init /\ [][Next]_vars

\* ------------------------------------------------- calls on the store
UserHi == Message("user", Text(<<"Hi">>), "", <<>>)

\* An assistant message as the proxy stores it, its reasoning in details.
AssistantReasoned == Message("assistant", Text(<<"Hello">>), "", <<Text(<<"r">>)>>)

\* The same message as a client sends it back, the reasoning in the content.
AssistantEchoed ==
    Message("assistant", Text(<<"<think>", "r", "</think>", "\n", "Hello">>), "", <<>>)

\* An assistant message whose content lacks the opening marker.
AssistantUnwrapped ==
    Message("assistant", Text(<<"q", "</think>", "\n", "Bye">>), "", <<>>)

\* The same message as a client sends it back, the opening marker restored.
AssistantWrapped ==
    Message("assistant", Text(<<"<think>", "\n", "q", "</think>", "\n", "Bye">>), "", <<>>)

ToolMessage == Message("tool", Text(<<"42">>), "", <<>>)

NamedToolResult == Message("user", Text(<<"42">>), "tool_result", <<>>)

AnthropicToolResult == tool_result_to_openai("t1", "42")

\* The messages append_message is called with.
StoredMessages == {UserHi, AssistantReasoned, AssistantUnwrapped}

\* The message lists inject_or_repair is called with.
Turns ==
    { <<>>,
      <<UserHi>>,
      <<UserHi, ToolMessage, ToolMessage>>,
      <<UserHi, NamedToolResult>>,
      <<UserHi, AnthropicToolResult>>,
      <<UserHi, AssistantEchoed, ToolMessage>>,
      <<UserHi, AssistantWrapped, AnthropicToolResult>> }

\* The appends that precede a repair: the history of s1, and an assistant
\* message of another session.
RepairAppends ==
    {<<"s1", UserHi>>, <<"s1", AssistantReasoned>>, <<"s1", AssistantUnwrapped>>,
     <<"s2", AssistantUnwrapped>>}

\* The session id and require_session that inject_or_repair is called with.
RepairCalls == {<<"s1", TRUE>>, <<NoSession, TRUE>>, <<NoSession, FALSE>>}

SetStore(self) ==
    /\ memory_store' = self.memory_store
    /\ messages_table' = self.messages_table
    /\ UNCHANGED <<enabled, backend, max_messages>>

\* What the call returned, when, and after how many appends.
Return(op, session_id, value, seen) ==
    returned' = [NoCall EXCEPT !.op = op, !.session_id = session_id,
                               !.value = value, !.at = clock, !.seen = seen]

StoreInit ==
    /\ ParserInit
    /\ texts = <<>>
    /\ codec = CodecOff
    /\ anthropic = AnthropicOff
    /\ openai = OpenAIOff
    /\ delta_parser = DeltaParserOff
    /\ passthrough = PassthroughOff
    /\ enabled \in BOOLEAN
    /\ backend \in {"memory", "sqlite"}
    /\ max_messages \in {1, 2}
    /\ memory_store = [s \in SessionIds |-> <<>>]
    /\ messages_table = <<>>
    /\ clock = 0
    /\ threads = [t \in Threads |-> IdleThread]
    /\ appended = <<>>
    /\ returned = NoCall

\* time.time() moves on.
Tick ==
    /\ clock < MaxClock
    /\ clock' = clock + 1
    /\ UNCHANGED <<parserVars, texts, codec, streamVars, enabled, backend, max_messages, memory_store,
                   messages_table, threads, appended, returned>>

\* append_message, the whole call.
AppendMessage(session_id, message) ==
    /\ Len(appended) < MaxAppends
    /\ IF ~enabled \/ session_id = NoSession
       THEN UNCHANGED <<enabled, backend, max_messages, memory_store,
                        messages_table, appended>>
       ELSE /\ SetStore(append_locked(Store, session_id, message, clock, clock))
            /\ appended' = Append(appended, [session_id |-> session_id, ts |-> clock,
                                             message |-> message, at |-> clock])
    /\ Return("append_message", session_id, <<>>, Len(appended'))
    /\ UNCHANGED <<parserVars, texts, codec, streamVars, clock, threads>>

GetSession(session_id) ==
    /\ LET r == get_session(Store, session_id, clock)
       IN  /\ SetStore(r.self)
           /\ Return("get_session", session_id, r.value, Len(appended))
    /\ UNCHANGED <<parserVars, texts, codec, streamVars, clock, threads, appended>>

GetLastAssistant(session_id) ==
    /\ LET r == get_last_assistant(Store, session_id, clock)
       IN  /\ SetStore(r.self)
           /\ Return("get_last_assistant", session_id, r.value, Len(appended))
    /\ UNCHANGED <<parserVars, texts, codec, streamVars, clock, threads, appended>>

InjectOrRepair(messages, session_id, require_session) ==
    /\ LET r == inject_or_repair(Store, messages, session_id, require_session, clock)
       IN  /\ SetStore(r.self)
           /\ returned' = [op |-> "inject_or_repair", session_id |-> session_id,
                           messages |-> messages, require_session |-> require_session,
                           value |-> r.result, caller_messages |-> r.messages,
                           at |-> clock, seen |-> Len(appended)]
    /\ UNCHANGED <<parserVars, texts, codec, streamVars, clock, threads, appended>>

NextStore ==
    \/ Tick
    \/ \E s \in SessionIds \cup {NoSession}, m \in StoredMessages : AppendMessage(s, m)
    \/ \E s \in SessionIds \cup {NoSession} : GetSession(s)
    \/ \E s \in SessionIds \cup {NoSession} : GetLastAssistant(s)

NextRepair ==
    \/ Tick
    \/ \E a \in RepairAppends : AppendMessage(a[1], a[2])
    \/ \E ms \in Turns, c \in RepairCalls : InjectOrRepair(ms, c[1], c[2])

RepairInit == StoreInit /\ max_messages = 2

\* The store and the history repair called by one caller at a time.
SpecRepair == RepairInit /\ [][NextRepair]_vars

\* The store called by one caller at a time.
SpecStore == StoreInit /\ [][NextStore]_vars

\* The session the threads share.
SharedSession == "s1"

\* append_message up to the lock: the early return, or the payload and the
\* timestamp, which the thread reads before it waits for the lock.
AppendBegin(t, session_id, message) ==
    /\ threads[t].pc = "idle"
    /\ Len(appended) + Cardinality({u \in Threads : threads[u].pc = "lock"})
           < MaxAppends
    /\ IF ~enabled \/ session_id = NoSession
       THEN /\ Return("append_message", session_id, <<>>, Len(appended))
            /\ UNCHANGED threads
       ELSE /\ threads' = [threads EXCEPT ![t] =
                             [pc |-> "lock", session_id |-> session_id,
                              message |-> message, ts |-> clock]]
            /\ UNCHANGED returned
    /\ UNCHANGED <<parserVars, texts, codec, streamVars, enabled, backend, max_messages, memory_store,
                   messages_table, clock, appended>>

\* append_message holding the lock, from taking it to releasing it.
AppendLocked(t) ==
    /\ threads[t].pc = "lock"
    /\ SetStore(append_locked(Store, threads[t].session_id, threads[t].message,
                              threads[t].ts, clock))
    /\ appended' = Append(appended, [session_id |-> threads[t].session_id,
                                     ts |-> threads[t].ts,
                                     message |-> threads[t].message, at |-> clock])
    /\ threads' = [threads EXCEPT ![t] = IdleThread]
    /\ Return("append_message", threads[t].session_id, <<>>, Len(appended'))
    /\ UNCHANGED <<parserVars, texts, codec, streamVars, clock>>

NextThreads ==
    \/ Tick
    \/ \E t \in Threads, m \in StoredMessages : AppendBegin(t, SharedSession, m)
    \/ \E t \in Threads : AppendLocked(t)
    \/ GetSession(SharedSession)
    \/ GetLastAssistant(SharedSession)

\* The store called by several threads on one session.  A call that holds the lock runs
\* from taking it to releasing it in one step: the lock keeps every other
\* call on the store out meanwhile.
SpecThreads == StoreInit /\ [][NextThreads]_vars

\* --------------------------------------------- the store's file, damaged
\* The sqlite file outlives the process and is written by whoever can reach
\* it: a row of the table whose payload is no longer JSON text.  The rows
\* of the in-memory backend are only ever written by append_message.
MaxDamaged == 1

Damaged(table) == {i \in 1..Len(table) : ~table[i].payload.json}

DamageRow(i) ==
    /\ backend = "sqlite"
    /\ i \in 1..Len(messages_table)
    /\ messages_table[i].payload.json
    /\ Cardinality(Damaged(messages_table)) < MaxDamaged
    /\ messages_table' = [messages_table EXCEPT ![i].payload.json = FALSE]
    /\ UNCHANGED <<parserVars, texts, codec, streamVars, enabled, backend,
                   max_messages, memory_store, clock, threads, appended, returned>>

\* A table that an earlier run of the proxy left behind.
LeftBehind ==
    {<<>>,
     <<[session_id |-> "s1", ts |-> 0, role |-> "assistant",
        payload |-> json_dumps(AssistantReasoned)]>>}

DamagedInit ==
    /\ ParserInit
    /\ texts = <<>>
    /\ codec = CodecOff
    /\ anthropic = AnthropicOff
    /\ openai = OpenAIOff
    /\ delta_parser = DeltaParserOff
    /\ passthrough = PassthroughOff
    /\ enabled = TRUE
    /\ backend = "sqlite"
    /\ max_messages \in {2, 3}
    /\ memory_store = [s \in SessionIds |-> <<>>]
    /\ messages_table \in LeftBehind
    /\ clock = 0
    /\ threads = [t \in Threads |-> IdleThread]
    /\ appended = <<>>
    /\ returned = NoCall

NextDamaged ==
    \/ Tick
    \/ \E m \in StoredMessages : AppendMessage("s1", m)
    \/ \E i \in 1..3 : DamageRow(i)
    \/ GetSession("s1")
    \/ GetLastAssistant("s1")
    \/ \E ms \in {<<UserHi>>, <<UserHi, AssistantEchoed, ToolMessage>>} :
          InjectOrRepair(ms, "s1", TRUE)

\* The store read while rows of its table are unreadable.
SpecDamaged == DamagedInit /\ [][NextDamaged]_vars


\* ------------------------------------------------------- the normalizer
\* Length of the texts given to ensure_think_wrapped, in tokens.
MaxTextLen == 3

\* Number of times ensure_think_wrapped is applied in a row.
MaxWraps == 2

Alphabet == {"<think>", "</think>", " ", "a"}

InputTexts ==
    UNION {{[k \in 1..n |-> Tok(p[k], 0)] : p \in [1..n -> Alphabet]} :
             n \in 0..MaxTextLen}

NormalizerInit ==
    /\ ParserInit
    /\ StoreOff
    /\ \E x \in InputTexts : texts = <<x>>
    /\ codec = CodecOff
    /\ anthropic = AnthropicOff
    /\ openai = OpenAIOff
    /\ delta_parser = DeltaParserOff
    /\ passthrough = PassthroughOff

\* ensure_think_wrapped applied to the result of the last application.
EnsureThinkWrapped ==
    /\ texts # <<>>
    /\ Len(texts) <= MaxWraps
    /\ texts' = Append(texts, ensure_think_wrapped(texts[Len(texts)]))
    /\ UNCHANGED <<parserVars, storeVars, codec, streamVars>>

SpecNormalizer == NormalizerInit /\ [][EnsureThinkWrapped]_vars

\* ---------------------------------------------------------- the splitter
\* Length of the texts given to split_think, in tokens.
MaxSplitLen == 4

SplitTexts ==
    UNION {{[k \in 1..n |-> Tok(p[k], 0)] : p \in [1..n -> Alphabet]} :
             n \in 0..MaxSplitLen}

SplitterInit ==
    /\ ParserInit
    /\ StoreOff
    /\ \E x \in SplitTexts : texts = <<x>>
    /\ codec = CodecOff
    /\ anthropic = AnthropicOff
    /\ openai = OpenAIOff
    /\ delta_parser = DeltaParserOff
    /\ passthrough = PassthroughOff

\* reasoning, visible = split_think(text)
SplitThink ==
    /\ Len(texts) = 1
    /\ texts' = <<texts[1], split_think(texts[1]).reasoning,
                  split_think(texts[1]).visible>>
    /\ UNCHANGED <<parserVars, storeVars, codec, streamVars>>

SpecSplitter == SplitterInit /\ [][SplitThink]_vars

\* ------------------------------------------------------------ the codec
\* Number of tool calls given to the encoder.
MaxCalls == 2

\* Number of segments of a text given to the decoder.
MaxSegments == 4

\* The values of the arguments: an int, None, a bool, a nested value, the
\* string "null", a string with white space around it.
Values ==
    <<Py("int", "42"), PyNone, Py("bool", "True"), Py("dict", "{\"a\": 1}"),
      PyStr(Text(<<"null">>)), PyStr(Text(<<" ", "a", " ">>))>>

Item(name, value) == [name |-> name, value |-> value]

\* The dicts given as arguments: empty, one key, and two keys in each order.
ArgumentDicts ==
    {ArgumentsDict(<<>>)}
    \cup {ArgumentsDict(<<Item("k", Values[i])>>) : i \in 1..Len(Values)}
    \cup {ArgumentsDict(<<Item("k", Values[i]),
                          Item("n", Values[(i % Len(Values)) + 1])>>) :
             i \in 1..Len(Values)}
    \cup {ArgumentsDict(<<Item("n", Values[i]), Item("k", Values[i])>>) :
             i \in 1..Len(Values)}

\* The calls given to the encoder: f with a dict, g with another value.
CallsIn ==
    {[name |-> "f", arguments |-> arguments] : arguments \in ArgumentDicts}
    \cup {[name |-> "g", arguments |-> ArgumentsOther(Values[i])] :
             i \in 1..Len(Values)}

CallLists == UNION {[1..m -> CallsIn] : m \in 0..MaxCalls}

\* The pieces of the texts given to the decoder: the markers, complete
\* invocations of f with one parameter, one of g without, an invocation
\* that is never closed, and a complete block.
Segments ==
    { tool_call_start_token,
      tool_call_end_token,
      <<"<invoke name=\"f\">", "<parameter name=\"k\">", "\n", "42", "\n",
        "</parameter>", "</invoke>">>,
      <<"<invoke name=\"f\">", "<parameter name=\"k\">", "a", "</parameter>",
        "</invoke>">>,
      <<"<invoke name=\"f\">", "<parameter name=\"n\">", "inf", "</parameter>",
        "</invoke>">>,
      <<"<invoke name=\"g\">", "</invoke>">>,
      <<"<invoke name=\"g\">">>,
      <<"a", "<minimax:", "tool_call>", "<invoke name=\"g\">", "</invoke>",
        "</minimax:", "tool_call>">> }

RawTexts ==
    {Text(Concat(segments)) :
        segments \in UNION {[1..m -> Segments] : m \in 0..MaxSegments}}

\* The tool definitions given to the decoder: none, the declared types of
\* f's parameters (known names, an unknown name, no type, two more known
\* names), and a list whose first element is not a dict.
Schemas ==
    { NoTools,
      <<Tool("g", <<>>),
        Tool("f", <<Property("k", "integer"), Property("n", "number")>>)>>,
      <<Tool("f", <<Property("k", "date"), Property("n", "")>>)>>,
      <<Tool("f", <<Property("k", "boolean"), Property("n", "object")>>)>>,
      <<NotADict>> }

CodecInit ==
    /\ ParserInit
    /\ StoreOff
    /\ texts = <<>>
    /\ anthropic = AnthropicOff
    /\ openai = OpenAIOff
    /\ delta_parser = DeltaParserOff
    /\ passthrough = PassthroughOff
    /\ \/ \E tool_calls \in CallLists :
             codec = [stage |-> "calls", tool_calls |-> tool_calls,
                      tools |-> NoTools, model_output |-> None,
                      result |-> NoResult]
       \/ \E model_output \in RawTexts, tools \in Schemas :
             codec = [stage |-> "text", tool_calls |-> <<>>, tools |-> tools,
                      model_output |-> Some(model_output), result |-> NoResult]

\* tool_calls_to_minimax_xml(tool_calls)
ToolCallsToMinimaxXml ==
    /\ codec.stage = "calls"
    /\ codec' = [codec EXCEPT !.stage = "text",
                              !.model_output = tool_calls_to_minimax_xml(codec.tool_calls)]
    /\ UNCHANGED <<parserVars, storeVars, texts, streamVars>>

\* parse_tool_calls(model_output, tools); given None, the test
\* `"<minimax:tool_call>" not in model_output` raises TypeError.
ParseToolCalls ==
    /\ codec.stage = "text"
    /\ codec' = IF codec.model_output.none
                THEN [codec EXCEPT !.stage = "raised"]
                ELSE [codec EXCEPT !.stage = "parsed",
                                   !.result = parse_tool_calls(codec.model_output.s,
                                                               codec.tools)]
    /\ UNCHANGED <<parserVars, storeVars, texts, streamVars>>

NextCodec ==
    \/ ToolCallsToMinimaxXml
    \/ ParseToolCalls

SpecCodec == CodecInit /\ [][NextCodec]_vars

\* ------------------------------------------------- the Anthropic stream
\* The chunks the backend may stream to stream_anthropic_response.
NoChoices ==
    [has_choices |-> FALSE, reasoning_content |-> <<>>, content |-> <<>>,
     tool_calls |-> <<>>, finish_reason |-> ""]

AnthropicChunks ==
    { NoChoices,
      BackendChunk(Text(<<"r">>), <<>>, <<>>, ""),
      BackendChunk(<<>>, Text(<<"v">>), <<>>, ""),
      BackendChunk(<<>>, Text(<<"<think>", "r", "</think>", "\n", "v">>), <<>>, ""),
      BackendChunk(<<>>, Text(Block), <<>>, ""),
      BackendChunk(<<>>, Text(Block), <<>>, "stop"),
      BackendChunk(<<>>, <<>>,
                   <<ToolCallDelta(0, TRUE, "call_0", TRUE, "f", TRUE, Text(<<"{">>))>>,
                   ""),
      BackendChunk(<<>>, <<>>,
                   <<ToolCallDelta(0, FALSE, "", FALSE, "", TRUE, Text(<<"}">>))>>, ""),
      BackendChunk(<<>>, <<>>,
                   <<ToolCallDelta(1, TRUE, "call_1", TRUE, "g", FALSE, <<>>)>>, ""),
      BackendChunk(<<>>, <<>>, <<>>, "stop"),
      BackendChunk(<<>>, <<>>, <<>>, "tool_calls"),
      BackendChunk(<<>>, <<>>, <<>>, "length") }

\* message_start has been sent and the loop over the backend's stream begins.
AnthropicInit ==
    /\ ParserInit
    /\ StoreOff
    /\ texts = <<>>
    /\ codec = CodecOff
    /\ openai = OpenAIOff
    /\ delta_parser = DeltaParserOff
    /\ passthrough = PassthroughOff
    /\ anthropic = [AnthropicOff EXCEPT !.stage = "streaming",
                                        !.yielded = <<format_message_start>>]

\* One iteration of `async for chunk in tabby_client.extract_streaming_content`.
AnthropicBackendChunk ==
    /\ anthropic.stage = "streaming"
    /\ Len(anthropic.received) < MaxBackendChunks
    /\ \E chunk \in AnthropicChunks :
          anthropic' = [anthropic_chunk(anthropic, chunk)
                           EXCEPT !.received = Append(@, chunk)]
    /\ UNCHANGED <<parserVars, storeVars, texts, codec, openai,
                 delta_parser, passthrough>>

\* The backend's stream ends.
AnthropicBackendEnd ==
    /\ anthropic.stage = "streaming"
    /\ anthropic' = [anthropic_stop(anthropic) EXCEPT !.stage = "stopped"]
    /\ UNCHANGED <<parserVars, storeVars, texts, codec, openai,
                 delta_parser, passthrough>>

NextAnthropic ==
    \/ AnthropicBackendChunk
    \/ AnthropicBackendEnd

SpecAnthropic == AnthropicInit /\ [][NextAnthropic]_vars

\* ---------------------------------------------------- the OpenAI stream
\* The chunks the backend may stream to stream_openai_response.
OpenAIChunks ==
    { NoChoices,
      BackendChunk(Text(<<"r">>), <<>>, <<>>, ""),
      BackendChunk(<<>>, Text(<<"r", " ">>), <<>>, ""),
      BackendChunk(<<>>, Text(<<"s", "</think>", "\n", "v">>), <<>>, ""),
      BackendChunk(<<>>, Text(<<"</think>", "\n">>), <<>>, ""),
      BackendChunk(<<>>, Text(<<"v">>), <<>>, "stop"),
      BackendChunk(<<>>, Text(<<"<minimax:", "tool_call>", "<invoke name=\"f\">">>),
                   <<>>, ""),
      BackendChunk(<<>>, Text(Block), <<>>, ""),
      BackendChunk(<<>>, <<>>,
                   <<ToolCallDelta(0, TRUE, "call_0", TRUE, "f", TRUE, Text(<<"{}">>))>>,
                   ""),
      BackendChunk(<<>>, <<>>, <<>>, "stop"),
      BackendChunk(<<>>, <<>>, <<>>, "length") }

\* The request has been prepared and the backend's stream is opened; the
\* request asks for reasoning_split or not.
OpenAIInit ==
    /\ ParserInit
    /\ StoreOff
    /\ texts = <<>>
    /\ codec = CodecOff
    /\ anthropic = AnthropicOff
    /\ delta_parser = DeltaParserOff
    /\ passthrough = PassthroughOff
    /\ \E reasoning_split \in BOOLEAN :
          openai = [OpenAIOff EXCEPT !.stage = "streaming",
                                     !.reasoning_split = reasoning_split]

\* The backend streams one chunk.
OpenAIBackendChunk ==
    /\ openai.stage = "streaming"
    /\ Len(openai.received) + openai.drained < MaxBackendChunks
    /\ \E chunk \in OpenAIChunks : openai' = openai_chunk(openai, chunk)
    /\ UNCHANGED <<parserVars, storeVars, texts, codec, anthropic,
                 delta_parser, passthrough>>

\* The backend's stream ends.
OpenAIBackendEnd ==
    /\ openai.stage = "streaming"
    /\ openai' = [openai_done(openai) EXCEPT !.stage = "done"]
    /\ UNCHANGED <<parserVars, storeVars, texts, codec, anthropic,
                 delta_parser, passthrough>>

NextOpenAI ==
    \/ OpenAIBackendChunk
    \/ OpenAIBackendEnd

SpecOpenAI == OpenAIInit /\ [][NextOpenAI]_vars

\* ------------------------------------------- the deltas of one message
\* Number of process_delta calls of one message.
MaxDeltas == 3

\* StreamingParser() before its first delta.
DeltaInit ==
    /\ ParserInit
    /\ StoreOff
    /\ texts = <<>>
    /\ codec = CodecOff
    /\ anthropic = AnthropicOff
    /\ openai = OpenAIOff
    /\ passthrough = PassthroughOff
    /\ delta_parser = NewDeltaParser

\* One delta of the backend's stream is handed to process_delta.
ProcessDelta ==
    /\ delta_parser # DeltaParserOff
    /\ Len(delta_parser.results) < MaxDeltas
    /\ \E v \in Chunks :
          delta_parser' = process_delta(delta_parser,
                                        Arrive(v, Len(delta_parser.accumulated_text)))
    /\ UNCHANGED <<parserVars, storeVars, texts, codec, anthropic, openai,
                   passthrough>>

SpecDelta == DeltaInit /\ [][ProcessDelta]_vars

\* --------------------------------- the Anthropic stream, passed through
\* message_start has been sent and the backend's stream is opened.
PassthroughInit ==
    /\ ParserInit
    /\ StoreOff
    /\ texts = <<>>
    /\ codec = CodecOff
    /\ anthropic = AnthropicOff
    /\ openai = OpenAIOff
    /\ delta_parser = DeltaParserOff
    /\ passthrough = [PassthroughOff EXCEPT !.stage = "streaming",
                                            !.yielded = <<format_message_start>>]

\* One iteration of `async for chunk in tabby_client.extract_streaming_content`.
PassthroughBackendChunk ==
    /\ passthrough.stage = "streaming"
    /\ Len(passthrough.received) < MaxBackendChunks
    /\ \E chunk \in AnthropicChunks :
          passthrough' = passthrough_chunk(passthrough, chunk)
    /\ UNCHANGED <<parserVars, storeVars, texts, codec, anthropic, openai,
                   delta_parser>>

\* The backend's stream ends.
PassthroughBackendEnd ==
    /\ passthrough.stage = "streaming"
    /\ passthrough' = passthrough_end(passthrough)
    /\ UNCHANGED <<parserVars, storeVars, texts, codec, anthropic, openai,
                   delta_parser>>

NextPassthrough ==
    \/ PassthroughBackendChunk
    \/ PassthroughBackendEnd

SpecPassthrough == PassthroughInit /\ [][NextPassthrough]_vars

\* ------------------------------------------------------------ properties
ChunkCalls == {k \in 1..Len(events) : events[k].op = "chunk"}

FlushCalls == {k \in 1..Len(events) : events[k].op = "flush"}

\* The text received when call k returned.
Received(k) == SubSeq(accumulated, 1, events[k].at)

\* The output of call k carries the token that arrived at position i.
Carries(k, i) == \E j \in 1..Len(events[k].text) : events[k].text[j].i = i

StartsAt(s) == MatchAt(accumulated, tool_call_start_token, s)

\* Position of the last token of the end marker of the call-block that
\* starts at s; 0 while that end marker has not arrived.
EndOf(s) ==
    LET e == Find(accumulated, tool_call_end_token, s + 2)
    IN  IF e = 0 THEN 0 ELSE e + 1

BlockText(s) == IF EndOf(s) = 0 THEN s..Len(accumulated) ELSE s..EndOf(s)

\* C1: no output of process_chunk returned before the end marker of a
\* call-block has arrived carries any token of that call-block (its markers
\* included), wherever the chunk boundaries fall.
C1_NoPartialToolCallLeakage ==
    \A k \in ChunkCalls : \A s \in 1..Len(accumulated) :
        (StartsAt(s) /\ (EndOf(s) = 0 \/ EndOf(s) > events[k].at))
            => \A i \in BlockText(s) : ~Carries(k, i)

\* C2: over a turn, process_chunk calls followed by flush_pending, at most one
\* returned event is of type tool_calls.
C2_AtMostOneBatch ==
    Cardinality({k \in 1..Len(events) : events[k].type = "tool_calls"}) <= 1

\* A flushed turn that returned a batch and received a second complete block.
C2_Witness ==
    /\ pc = "flushed"
    /\ \E k \in ChunkCalls : events[k].type = "tool_calls"
    /\ Len(CallBlocks(accumulated, 1)) >= 2

Undetermined(k) ==
    /\ ~Contains(Received(k), THINK_CLOSE)
    /\ ~Contains(Received(k), tool_call_start_token)

\* C3 as stated: while the text received holds neither the closing reasoning
\* marker nor the start marker, process_chunk returns no output, however much
\* text is buffered.
C3_UndeterminedBuffersAnyAmount ==
    \A k \in ChunkCalls : Undetermined(k) => events[k].type = "none"

\* C3 as amended: while the text received holds neither marker and is shorter
\* than REASONING_BUFFER_LIMIT characters, process_chunk returns no output, and
\* the first flush_pending releases exactly that text.
C3_UndeterminedBuffersBelowLimit ==
    /\ \A k \in ChunkCalls :
          (Undetermined(k) /\ CharLen(Received(k)) < REASONING_BUFFER_LIMIT)
              => events[k].type = "none"
    /\ \A k \in FlushCalls :
          (/\ k - 1 \notin FlushCalls
           /\ Undetermined(k)
           /\ CharLen(Received(k)) < REASONING_BUFFER_LIMIT)
              => /\ events[k].text = Received(k)
                 /\ events[k].type = IF Received(k) = <<>> THEN "none" ELSE "tail"

\* Two silent process_chunk calls on undetermined text, then the flush that
\* released it.
C3_Witness ==
    /\ Len(events) = 3
    /\ events[3].op = "flush" /\ events[3].type = "tail"
    /\ Undetermined(3)
    /\ Len(Received(1)) >= 1 /\ Len(Received(2)) > Len(Received(1))
    /\ events[1].type = "none" /\ events[2].type = "none"

\* Tool-Call-Pending: the start marker is in the text received and the end
\* marker is not.
Pending(k) ==
    /\ Contains(Received(k), tool_call_start_token)
    /\ ~Contains(Received(k), tool_call_end_token)

ReasoningPositions ==
    LET c == Find(accumulated, THINK_CLOSE, 1) IN IF c = 0 THEN {} ELSE 1..c

\* C5: no token of the reasoning text is carried by two outputs of the turn
\* (content events, the content of the tool_calls event, the flushed tail).
C5_ReasoningNeverTwice ==
    \A j, k \in 1..Len(events) :
        j < k => \A i \in ReasoningPositions : ~(Carries(j, i) /\ Carries(k, i))

\* Reasoning went out in a content event, a tool_calls event followed, and the
\* turn was flushed.
C5_Witness ==
    /\ pc = "flushed"
    /\ \E j, k \in ChunkCalls :
          /\ j < k
          /\ events[j].type = "content"
          /\ \E i \in ReasoningPositions : Carries(j, i)
          /\ events[k].type = "tool_calls"

\* The raw span the batch returned by call k consumed: from the first start
\* marker to the end marker of the last block decoded.
BatchSpan(k) ==
    LET blocks == CallBlocks(Received(k), 1)
    IN  SubSeq(accumulated, blocks[1].lo, blocks[Len(blocks)].hi)

RawDelta(k) ==
    IF events[k].type = "tool_calls" THEN events[k].text \o BatchSpan(k)
    ELSE events[k].text

RECURSIVE RawDeltas(_)
RawDeltas(k) == IF k = 0 THEN <<>> ELSE RawDeltas(k - 1) \o RawDelta(k)

Pieces(s) == [i \in 1..Len(s) |-> s[i].c]

\* C6: after flush_pending, the raw deltas emitted during the turn (content
\* deltas, the raw span of the batch) followed by the flushed tail are, in
\* emission order, exactly the text received.
C6_FlushCompleteness ==
    pc = "flushed" => Pieces(RawDeltas(Len(events))) = Pieces(accumulated)

\* C7: no process_chunk call and no flush_pending call raises.
C7_NeverRaises ==
    \A k \in 1..Len(events) : events[k].type # "raise"

\* C8: the tool_calls event carries every call decoded from the text received
\* and every token (other than white space) that precedes the start marker and
\* was not emitted before, whether or not content went out earlier.
C8_BatchCarriesLeadingText ==
    \A k \in ChunkCalls :
        events[k].type = "tool_calls" =>
            /\ events[k].calls = parse_tool_calls(Received(k), NoTools).tool_calls
            /\ \A i \in 1..(Find(Received(k), tool_call_start_token, 1) - 1) :
                  (~IsSpace(accumulated[i]) /\ \A j \in 1..(k - 1) : ~Carries(j, i))
                      => Carries(k, i)

\* C9: once the turn is flushed, every token that follows the call-block the
\* batch consumed has been emitted by a later call.
C9_TrailingContentStreamed ==
    pc = "flushed" =>
        \A k \in ChunkCalls :
            events[k].type = "tool_calls" =>
                LET blocks == CallBlocks(Received(k), 1)
                IN  \A i \in (blocks[Len(blocks)].hi + 1)..Len(accumulated) :
                        \E j \in (k + 1)..Len(events) : Carries(j, i)

Malformed(k) ==
    /\ ~parse_tool_calls(Received(k), NoTools).tools_called
    /\ \E s \in 1..events[k].at :
          StartsAt(s) /\ EndOf(s) # 0 /\ EndOf(s) <= events[k].at

FirstBlock(k) ==
    LET s == Find(Received(k), tool_call_start_token, 1) IN s..EndOf(s)

\* C11: a process_chunk call that returns with a malformed call-block received
\* returns no tool_calls event and emits no token of the block, and the
\* flush_pending at the end of the turn returns the block's text as content.
C11_MalformedDegradesToContent ==
    /\ \A k \in ChunkCalls :
          Malformed(k) => /\ events[k].type # "tool_calls"
                          /\ \A i \in FirstBlock(k) : ~Carries(k, i)
    /\ \A k \in FlushCalls :
          (k - 1 \notin FlushCalls /\ Malformed(k))
              => /\ events[k].type = "tail"
                 /\ \A i \in FirstBlock(k) : Carries(k, i)

\* ------------------------------------------- properties of the store
\* The appends to a session among the first `seen` appends, in the order in
\* which they took the lock.
LogOf(session_id, seen) ==
    SelectSeq(SubSeq(appended, 1, seen), LAMBDA e : e.session_id = session_id)

\* The entries appended no more than ttl_seconds before the time `at`.
Unexpired(entries, at) ==
    SelectSeq(entries, LAMBDA e : ~(at - e.ts > ttl_seconds))

MessagesOf(entries) == [k \in 1..Len(entries) |-> entries[k].message]

\* The history a session has at time `at`: its max_messages most recently
\* appended unexpired messages, in append order.
History(session_id, seen, at) ==
    LET live == Unexpired(LogOf(session_id, seen), at)
        from == IF Len(live) > max_messages THEN Len(live) - max_messages + 1 ELSE 1
    IN  MessagesOf(SubSeq(live, from, Len(live)))

\* The last assistant message of that history, NoMessage when it has none.
LastAssistant(session_id, seen, at) ==
    LET h == History(session_id, seen, at)
        found == {i \in 1..Len(h) : h[i].role = "assistant"}
    IN  IF found = {} THEN NoMessage
        ELSE h[CHOOSE i \in found : \A j \in found : j <= i]

Repairs == returned.op = "inject_or_repair"

StoredAssistant == LastAssistant(returned.session_id, returned.seen, returned.at)

InsertedAt(i) ==
    returned.value.messages =
        SubSeq(returned.messages, 1, i) \o <<StoredAssistant>>
            \o SubSeq(returned.messages, i + 1, Len(returned.messages))

\* C12: the list inject_or_repair returns is the list it was given, or that
\* list with the stored last assistant message inserted at one place (every
\* given message kept, unmodified and in order), and the caller's list is
\* after the call what it was before.
C12_RepairInsertOnly ==
    Repairs =>
        /\ returned.caller_messages = returned.messages
        /\ \/ returned.value.messages = returned.messages
           \/ \E i \in 0..Len(returned.messages) : InsertedAt(i)

\* A repair that inserted the stored message between two given messages.
C12_Witness ==
    /\ Repairs
    /\ returned.value.repaired
    /\ Len(returned.value.messages) = Len(returned.messages) + 1
    /\ \E i \in 1..(Len(returned.messages) - 1) : InsertedAt(i)

\* A tool-result message: role tool, a user message named tool_result, or
\* the user message the proxy makes of an Anthropic tool_result block.
IsToolResult(m) ==
    \/ m.role = "tool"
    \/ m.role = "user" /\ m.name = "tool_result"
    \/ m.role = "user" /\ m.content # <<>> /\ m.content[1].c = "Tool result for "

\* The stored last assistant message exists and no assistant message of the
\* given list equals it once both are normalized.
StoredAbsent ==
    /\ Repairs
    /\ StoredAssistant # NoMessage
    /\ \A i \in 1..Len(returned.messages) :
          returned.messages[i].role = "assistant" =>
              normalize_assistant_message(returned.messages[i])
                  # normalize_assistant_message(StoredAssistant)

\* C13: when the stored last assistant message is absent from the given
\* list, the result is tagged repaired and has that message immediately
\* before the first tool-result message of the list, whatever its shape, or
\* at the end when the list has no tool-result message.
C13_RepairBeforeFirstToolResult ==
    StoredAbsent =>
        LET hits == {i \in 1..Len(returned.messages) :
                        IsToolResult(returned.messages[i])}
        IN  /\ returned.value.repaired
            /\ returned.value.reason = "assistant_injected"
            /\ IF hits = {} THEN InsertedAt(Len(returned.messages))
               ELSE InsertedAt((CHOOSE i \in hits : \A j \in hits : i <= j) - 1)

\* Some assistant message of the given list equals the stored last assistant
\* message once both are normalized.
StoredPresent ==
    /\ Repairs
    /\ StoredAssistant # NoMessage
    /\ \E i \in 1..Len(returned.messages) :
          /\ returned.messages[i].role = "assistant"
          /\ normalize_assistant_message(returned.messages[i])
                 = normalize_assistant_message(StoredAssistant)

\* C14: when some assistant message of the given list equals the stored last
\* assistant message after normalization, inject_or_repair returns the list
\* unchanged, not repaired, skipped, with skip reason assistant_present.
C14_NoDuplicateInjection ==
    StoredPresent =>
        /\ returned.value.messages = returned.messages
        /\ ~returned.value.repaired
        /\ returned.value.skipped
        /\ returned.value.skip_reason = "assistant_present"

\* The stored message keeps its reasoning in reasoning_details and the given
\* list has it with the reasoning inside the content.
C14_Witness ==
    /\ StoredPresent
    /\ returned.value.skip_reason = "assistant_present"
    /\ StoredAssistant.reasoning_details # <<>>
    /\ \A i \in 1..Len(returned.messages) : returned.messages[i] # StoredAssistant

\* A step that is one inject_or_repair call; returned' is what it returned.
RepairStep == returned'.op = "inject_or_repair" /\ clock' = clock

SkippedWith(r, skip_reason) ==
    /\ r.value.messages = r.messages
    /\ r.value.skipped
    /\ ~r.value.repaired
    /\ r.value.skip_reason = skip_reason

\* Which of the three skip cases of C15 the call is in, "" for none.
SkipCase(r) ==
    IF ~enabled THEN "disabled"
    ELSE IF r.session_id = NoSession
    THEN (IF r.require_session THEN "missing_session_id" ELSE "")
    ELSE IF LastAssistant(r.session_id, r.seen, r.at) = NoMessage THEN "no_history"
    ELSE ""

\* C15 as stated: a call made with the store disabled, or without a session
\* id while require_session is true, or for a session with no stored
\* assistant message, returns the given list unchanged, skipped, with skip
\* reason disabled, missing_session_id or no_history, and leaves the contents
\* of the store unchanged.
C15_SkipLeavesStoreUnchanged ==
    [][(RepairStep /\ SkipCase(returned') # "")
          => /\ SkippedWith(returned', SkipCase(returned'))
             /\ UNCHANGED <<memory_store, messages_table>>]_vars

\* The records that are no older than ttl_seconds at the time of the step.
Live(records) == SelectSeq(records, LAMBDA row : ~(clock - row.ts > ttl_seconds))

\* C15 as amended: the same outcomes; the store is untouched in the disabled
\* and missing_session_id cases, and in the no_history case it keeps every
\* record that has not expired, in order, and loses only expired ones.
C15_SkipKeepsLiveStore ==
    [][(RepairStep /\ SkipCase(returned') # "")
          => /\ SkippedWith(returned', SkipCase(returned'))
             /\ IF SkipCase(returned') = "no_history"
                THEN /\ \A s \in SessionIds :
                           /\ Live(memory_store'[s]) = Live(memory_store[s])
                           /\ \/ memory_store'[s] = memory_store[s]
                              \/ memory_store'[s] = Live(memory_store[s])
                     /\ Live(messages_table') = Live(messages_table)
                     /\ \/ messages_table' = messages_table
                        \/ messages_table' = Live(messages_table)
                ELSE UNCHANGED <<memory_store, messages_table>>]_vars

\* A no_history skip for a session whose only assistant message had expired
\* and was pruned by the call.
C15_Witness ==
    /\ Repairs
    /\ returned.value.skip_reason = "no_history"
    /\ returned.at = clock
    /\ \E k \in 1..returned.seen :
          /\ appended[k].session_id = returned.session_id
          /\ appended[k].message.role = "assistant"
    /\ memory_store[returned.session_id] = <<>>
    /\ \A k \in 1..Len(messages_table) :
          messages_table[k].session_id # returned.session_id

\* The messages the store holds for a session, as a read would load them.
Held(session_id) == load_session_locked(Store, session_id)

\* The last call went through the store at the present time.
JustCalled ==
    /\ enabled
    /\ returned.op # "none"
    /\ returned.session_id # NoSession
    /\ returned.at = clock
    /\ returned.seen = Len(appended)

\* C16: every session holds at most max_messages messages; after an
\* append_message call or a read the store holds, for every session, exactly
\* its max_messages most recently appended unexpired messages in append
\* order, and that is what get_session returns.
C16_BoundedHistory ==
    /\ \A s \in SessionIds : Len(Held(s)) <= max_messages
    /\ JustCalled => \A s \in SessionIds : Held(s) = History(s, Len(appended), clock)
    /\ (enabled /\ returned.op = "get_session" /\ returned.session_id # NoSession)
          => returned.value = History(returned.session_id, returned.seen, returned.at)

\* More unexpired messages were appended to a session than max_messages, and
\* get_session returned the newest ones.
C16_Witness ==
    /\ returned.op = "get_session"
    /\ Len(Unexpired(LogOf(returned.session_id, returned.seen), returned.at))
           > max_messages
    /\ Len(returned.value) = max_messages

\* The appends to the session read that had not expired at the read.
LiveAtRead ==
    Unexpired(LogOf(returned.session_id, returned.seen), returned.at)

FromLiveAppend(m) == \E k \in 1..Len(LiveAtRead) : LiveAtRead[k].message = m

\* C17: get_session and get_last_assistant return only messages appended no
\* more than ttl_seconds before the read, and for a session whose messages
\* have all expired they return what they return for a session without
\* history: the empty list and no message.
C17_TtlExpiry ==
    /\ returned.op = "get_session" =>
          /\ \A k \in 1..Len(returned.value) : FromLiveAppend(returned.value[k])
          /\ Len(returned.value) <= Len(LiveAtRead)
    /\ returned.op = "get_last_assistant" =>
          (returned.value # NoMessage => FromLiveAppend(returned.value))

\* get_session on a session with an expired and an unexpired message returned
\* a message.
C17_Witness ==
    /\ returned.op = "get_session"
    /\ returned.value # <<>>
    /\ Len(LiveAtRead) < Len(LogOf(returned.session_id, returned.seen))

\* a is b with some elements left out.
RECURSIVE IsSubsequence(_, _)
IsSubsequence(a, b) ==
    IF a = <<>> THEN TRUE
    ELSE IF b = <<>> THEN FALSE
    ELSE IF Head(a) = Head(b) THEN IsSubsequence(Tail(a), Tail(b))
    ELSE IsSubsequence(a, Tail(b))

\* The max_messages appends to the session read that took the lock last.
NewestAtRead ==
    LET log == LogOf(returned.session_id, returned.seen)
    IN  SubSeq(log, IF Len(log) > max_messages THEN Len(log) - max_messages + 1 ELSE 1,
               Len(log))

\* C18: whatever the interleaving of the threads, get_session returns every
\* message among the max_messages newest appends (those not expired), each
\* appended message at most once, in the order in which the appends took the
\* lock.
C18_NoLostUpdates ==
    (enabled /\ returned.op = "get_session") =>
        /\ IsSubsequence(MessagesOf(Unexpired(NewestAtRead, returned.at)),
                         returned.value)
        /\ IsSubsequence(returned.value,
                         MessagesOf(LogOf(returned.session_id, returned.seen)))

\* -------------------------------------- properties of the normalizer
Opens(text) == Cardinality({k \in 1..Len(text) : text[k].c = "<think>"})

\* C19: applying ensure_think_wrapped to its own result changes nothing, and
\* adds no second opening marker.
C19_NormalizerIdempotent ==
    \A k \in 3..Len(texts) :
        /\ texts[k] = texts[k - 1]
        /\ Opens(texts[k]) = Opens(texts[2])

\* The first application restored the opening marker and a second one
\* followed.
C19_Witness ==
    /\ Len(texts) >= 3
    /\ texts[2] # texts[1]
    /\ Opens(texts[2]) = Opens(texts[1]) + 1

\* C20 as stated: a text without the closing marker, and a text that holds an
\* opening marker at any position, is returned unchanged.
C20_UnchangedWhenOpenAnywhere ==
    (/\ Len(texts) >= 2
     /\ \/ ~Contains(texts[1], THINK_CLOSE)
        \/ Contains(texts[1], THINK_OPEN))
        => texts[2] = texts[1]

\* C20 as amended: a text without the closing marker, and a text that begins
\* with the opening marker once its leading white space is set aside, is
\* returned unchanged.
C20_UnchangedWhenOpenFirst ==
    (/\ Len(texts) >= 2
     /\ \/ ~Contains(texts[1], THINK_CLOSE)
        \/ StartsWith(lstrip(texts[1]), THINK_OPEN))
        => texts[2] = texts[1]

\* A text with leading white space, the opening marker and the closing
\* marker went through unchanged.
C20_Witness ==
    /\ Len(texts) >= 2
    /\ texts[1] # <<>>
    /\ IsSpace(texts[1][1])
    /\ StartsWith(lstrip(texts[1]), THINK_OPEN)
    /\ Contains(texts[1], THINK_CLOSE)
    /\ texts[2] = texts[1]

\* ------------------------------------------- properties of the codec
\* The decoder has returned.
Parsed == codec.stage = "parsed"

\* The steps of the try block on the text decoded: the calls built before
\* the first exception, and whether there was one.
DecodeSteps ==
    CallsOfBlocks(codec.model_output.s, CallBlocks(codec.model_output.s, 1),
                  codec.tools)

FailOpen ==
    /\ ~codec.result.tools_called
    /\ codec.result.tool_calls = <<>>
    /\ codec.result.content = Some(codec.model_output.s)

\* C21: parse_tool_calls given a text returns a result and propagates no
\* exception; when a step of the decoding raised, and whenever it reports no
\* tool call, the result is tools_called false, no call, and the original
\* text as content.
C21_DecodeFailOpen ==
    /\ codec.stage = "raised" => codec.model_output.none
    /\ Parsed => /\ DecodeSteps.raised => FailOpen
                 /\ ~codec.result.tools_called => FailOpen
                 /\ codec.result.tools_called => codec.result.tool_calls # <<>>

\* A call was decoded before the step that raised.
C21_Witness ==
    /\ Parsed
    /\ DecodeSteps.raised
    /\ DecodeSteps.calls # <<>>
    /\ FailOpen

\* The decoder has returned for the text the encoder made of a list of
\* calls whose arguments are dicts.
RoundTrip ==
    /\ Parsed
    /\ codec.tool_calls # <<>>
    /\ \A i \in 1..Len(codec.tool_calls) : codec.tool_calls[i].arguments.dict

\* A value with the white space around a string trimmed.
Trimmed(value) == IF value.t = "str" THEN PyStr(strip(value.s)) ELSE value

\* The arguments json.loads gives back from the arguments text of a call.
ArgumentsOf(call) == call.arguments.dict

\* C22: decoding the encoding of a list of calls yields as many calls, in the
\* same order, each with the same name, the same argument keys in the same
\* order, and values equal to the originals up to the trimming of strings.
C22_RoundTrip ==
    RoundTrip =>
        /\ codec.result.tools_called
        /\ Len(codec.result.tool_calls) = Len(codec.tool_calls)
        /\ \A i \in 1..Len(codec.tool_calls) :
              LET given == codec.tool_calls[i].arguments.items
                  back  == ArgumentsOf(codec.result.tool_calls[i])
              IN  /\ codec.result.tool_calls[i].name = codec.tool_calls[i].name
                  /\ Len(back) = Len(given)
                  /\ \A j \in 1..Len(given) :
                        /\ back[j].name = given[j].name
                        /\ back[j].value = Trimmed(given[j].value)

\* The text given to the decoder.
Decoded == codec.model_output.s

IsStart(a) == MatchAt(Decoded, tool_call_start_token, a)

IsEnd(b) == MatchAt(Decoded, tool_call_end_token, b)

\* A start marker outside every call-block that began before it.
OpensBlock(a) ==
    /\ IsStart(a)
    /\ \A a0 \in 1..(a - 1) : IsStart(a0) => \E b \in (a0 + 2)..(a - 2) : IsEnd(b)

\* The complete call-blocks: a start marker that opens a block, paired with
\* the first end marker after it ([a, b] are the places of the two markers).
CompleteBlocks ==
    {<<a, CHOOSE b \in (a + 2)..Len(Decoded) :
              IsEnd(b) /\ \A b0 \in (a + 2)..(b - 1) : ~IsEnd(b0)>> :
        a \in {a \in 1..Len(Decoded) :
                 OpensBlock(a) /\ \E b \in (a + 2)..Len(Decoded) : IsEnd(b)}}

IsInvokeEnd(b) == Decoded[b].c = "</invoke>"

\* The complete invocations: an opening tag inside a complete call-block,
\* outside every invocation of the block that began before it, with a closing
\* tag after it inside the block.
CompleteInvokes ==
    LET blocks == CompleteBlocks
    IN  {a \in 1..Len(Decoded) :
            /\ IsInvokeOpen(Decoded[a])
            /\ \E block \in blocks :
                  /\ block[1] + 2 <= a
                  /\ \E b \in (a + 1)..(block[2] - 1) : IsInvokeEnd(b)
                  /\ \A a0 \in (block[1] + 2)..(a - 1) :
                        IsInvokeOpen(Decoded[a0])
                            => \E b0 \in (a0 + 1)..(a - 1) : IsInvokeEnd(b0)}

\* The place of the k-th of the invocations in document order.
NthInvoke(invokes, k) ==
    CHOOSE a \in invokes : Cardinality({a0 \in invokes : a0 < a}) = k - 1

KnownTypes ==
    {"string", "str", "text", "integer", "int", "number", "float", "boolean",
     "bool", "object", "array"}

\* The types the tool definitions declare for a parameter of a function.
DeclaredTypes(function_name, param_name) ==
    LET properties == param_config_of(codec.tools, function_name).properties
    IN  {properties[k].type : k \in {k \in 1..Len(properties) :
                                        /\ properties[k].name = param_name
                                        /\ properties[k].type # ""}}

\* The places of the parameter sub-blocks of the invocation that opens at a
\* (in the texts decoded every parameter sub-block is complete).
ParametersAt(a) ==
    LET b == CHOOSE b \in (a + 1)..Len(Decoded) :
                 IsInvokeEnd(b) /\ \A b0 \in (a + 1)..(b - 1) : ~IsInvokeEnd(b0)
    IN  {p \in (a + 1)..(b - 1) : IsParameterOpen(Decoded[p])}

\* The text between the opening tag at p and its closing tag, stripped.
RawText(p) ==
    LET q == CHOOSE q \in (p + 1)..Len(Decoded) :
                 /\ Decoded[q].c = "</parameter>"
                 /\ \A q0 \in (p + 1)..(q - 1) : Decoded[q0].c # "</parameter>"
    IN  strip(SubSeq(Decoded, p + 1, q - 1))

ValueOf(call, param_name) ==
    LET items == call.arguments.dict
    IN  items[CHOOSE j \in 1..Len(items) : items[j].name = param_name].value

\* C24: when no step of the decoding raises, a parameter for which the tool
\* definitions declare no type, or a type that is not a known name, has the
\* value that JSON-parsing its raw text gives, and the raw string when the
\* raw text is not JSON (the last sub-block of a name gives the value).
C24_UntypedIsJsonParsed ==
    (Parsed /\ ~DecodeSteps.raised) =>
        LET invokes == CompleteInvokes
        IN  \A c \in 1..Len(codec.result.tool_calls) :
              LET call == codec.result.tool_calls[c]
                  ps   == ParametersAt(NthInvoke(invokes, c))
              IN  \A p \in ps :
                    LET param_name == ParameterName(Decoded[p])
                    IN  ( /\ \A p0 \in ps :
                                ParameterName(Decoded[p0]) = param_name => p0 <= p
                          /\ DeclaredTypes(call.name, param_name) \cap KnownTypes = {} )
                        => ValueOf(call, param_name)
                             = IF json_loads_value(RawText(p)).ok
                               THEN json_loads_value(RawText(p)).value
                               ELSE PyStr(RawText(p))

\* ------------------------------- properties of the parser, continued
\* Call k returned with the call-block start marker received and no closing
\* reasoning marker received before it.
ResolvedNegatively(k) ==
    LET start == Find(Received(k), tool_call_start_token, 1)
        close == Find(Received(k), THINK_CLOSE, 1)
    IN  start # 0 /\ (close = 0 \/ start < close)

\* The reasoning markers the parser made up in the output of call k.
Synthesized(k) ==
    {j \in 1..Len(events[k].text) :
        events[k].text[j].i = 0 /\ events[k].text[j].c \in {"<think>", "</think>"}}

UnclosedReasoningBeforeCall(k) ==
    /\ k \in ChunkCalls
    /\ parse_tool_calls(Received(k), NoTools).tools_called
    /\ ~Contains(Received(k), THINK_CLOSE)
    /\ \E i \in 1..(Find(Received(k), tool_call_start_token, 1) - 1) :
          ~IsSpace(accumulated[i])
    /\ \A j \in 1..(k - 1) : events[j].type = "none"

\* C26: text without a closing reasoning marker that is still buffered when
\* the complete call-block arrives is the content of the tool_calls event, as
\* a reasoning block: it starts with `<think>`, ends with `</think>`, and
\* holds the text received before the start marker.
C26_UnclosedReasoningWrapped ==
    \A k \in 1..Len(events) :
        UnclosedReasoningBeforeCall(k) =>
            /\ events[k].type = "tool_calls"
            /\ events[k].text # <<>>
            /\ Head(events[k].text).c = "<think>"
            /\ rstrip(events[k].text) # <<>>
            /\ rstrip(events[k].text)[Len(rstrip(events[k].text))].c = "</think>"
            /\ \A i \in 1..(Find(Received(k), tool_call_start_token, 1) - 1) :
                  ~IsSpace(accumulated[i]) => Carries(k, i)

\* Everything the calls of the turn returned, in order.
RECURSIVE EmittedUpTo(_)
EmittedUpTo(k) == IF k = 0 THEN <<>> ELSE EmittedUpTo(k - 1) \o events[k].text

Emitted == EmittedUpTo(Len(events))

\* C29: when the turn is over and the text received has a closing reasoning
\* marker and no opening one, what the turn emitted holds exactly one
\* `<think>`, and it is the first token of the first output that has text.
C29_OpeningMarkerOnce ==
    (/\ pc = "flushed"
     /\ Contains(accumulated, THINK_CLOSE)
     /\ ~Contains(accumulated, THINK_OPEN))
        => /\ Cardinality({j \in 1..Len(Emitted) : Emitted[j].c = "<think>"}) = 1
           /\ Emitted[1].c = "<think>"

\* Call k is the process_chunk call in which the start marker is first
\* received, its end marker not being received yet.
EntersPending(k) ==
    /\ k \in ChunkCalls
    /\ Contains(Received(k), tool_call_start_token)
    /\ ~Contains(Received(k), tool_call_end_token)
    /\ k > 1 => ~Contains(Received(k - 1), tool_call_start_token)

\* The text before the start marker that no call before k returned.
Unsent(k) ==
    {i \in 1..(Find(Received(k), tool_call_start_token, 1) - 1) :
        ~IsSpace(accumulated[i]) /\ \A j \in 1..(k - 1) : ~Carries(j, i)}

\* C30: the process_chunk call in which the start marker is first received,
\* without its end marker, returns a content delta with all the text before
\* the marker that was not returned before, when there is such text.
C30_FlushOnEnteringPending ==
    \A k \in 1..Len(events) :
        (EntersPending(k) /\ Unsent(k) # {}) =>
            /\ events[k].type = "content"
            /\ \A i \in Unsent(k) : Carries(k, i)

\* ------------------------------------ properties of the Anthropic stream
\* The text of the content deltas received so far.
RECURSIVE ContentOf(_)
ContentOf(chunks) ==
    IF chunks = <<>> THEN <<>>
    ELSE Head(chunks).content \o ContentOf(Tail(chunks))

\* The content deltas hold a <think>...</think> block and a call-block that
\* decodes to at least one call.
InlineMarkup(content) ==
    /\ Contains(content, THINK_OPEN)
    /\ Find(content, THINK_CLOSE, Find(content, THINK_OPEN, 1)) # 0
    /\ parse_tool_calls(content, NoTools).tools_called

Yielded(event, type) ==
    {k \in 1..Len(anthropic.yielded) :
        /\ anthropic.yielded[k].event = event
        /\ anthropic.yielded[k].type = type}

\* C27: when the content deltas of a finished stream hold an inline
\* <think>...</think> block and a complete call-block, the events of
\* stream_anthropic_response hold a thinking block with a thinking delta
\* and, for every decoded call, a tool_use block with a non-empty id and the
\* call's name.
C27_InlineMarkupParsed ==
    LET content == ContentOf(anthropic.received)
        calls   == parse_tool_calls(content, NoTools).tool_calls
    IN  (anthropic.stage = "stopped" /\ InlineMarkup(content)) =>
            /\ Yielded("content_block_start", "thinking") # {}
            /\ Yielded("content_block_delta", "thinking_delta") # {}
            /\ \A c \in 1..Len(calls) :
                  \E k \in Yielded("content_block_start", "tool_use") :
                     /\ anthropic.yielded[k].name = calls[c].name
                     /\ anthropic.yielded[k].id # ""

\* --------------------------------------- properties of the OpenAI stream
\* The first chunk legacy_stream received whose content holds the closing
\* reasoning marker, 0 when there is none.
ClosingChunk ==
    LET hits == {k \in 1..Len(openai.received) :
                    Contains(openai.received[k].content, THINK_CLOSE)}
    IN  IF hits = {} THEN 0 ELSE CHOOSE k \in hits : \A j \in hits : k <= j

\* The text received before the closing marker and the text that follows it
\* in the same content delta.
InlineReasoning ==
    LET delta == openai.received[ClosingChunk].content
        close == Find(delta, THINK_CLOSE, 1)
    IN  ContentOf(SubSeq(openai.received, 1, ClosingChunk - 1))
        \o SubSeq(delta, 1, close - 1)

InlineVisible ==
    LET delta == openai.received[ClosingChunk].content
        close == Find(delta, THINK_CLOSE, 1)
    IN  SubSeq(delta, close + Len(THINK_CLOSE), Len(delta))

\* The request asked for reasoning_split and a content delta has brought
\* reasoning text, the closing marker and visible text, with no other
\* marker.
SplitCase ==
    /\ openai.reasoning_split
    /\ ~openai.structured_mode
    /\ ClosingChunk # 0
    /\ strip(InlineReasoning) # <<>>
    /\ strip(InlineVisible) # <<>>
    /\ ~Contains(InlineReasoning \o InlineVisible, THINK_OPEN)
    /\ ~Contains(InlineReasoning \o InlineVisible, THINK_CLOSE)
    /\ ~Contains(InlineReasoning \o InlineVisible, tool_call_start_token)

Readable(self) ==
    [self EXCEPT !.messages_table =
        SelectSeq(self.messages_table, LAMBDA row : row.payload.json)]

\* The readable rows of a session in the order of the read, as messages.
ReadableRecords(table, session_id) ==
    LET rows == OrderByTsAsc(table, session_id)
        good == {k \in 1..Len(rows) : rows[k].payload.json}
        place(k) == Cardinality({j \in good : j <= k})
    IN  [n \in 1..Cardinality(good) |->
            rows[CHOOSE k \in good : place(k) = n].payload.text]

SessionDamaged(table, session_id) ==
    \E i \in Damaged(table) : table[i].session_id = session_id

\* A step that is a call of op on session s1: it returns, and leaves the
\* store as the cleanup of the call leaves it.
Called(op) ==
    /\ returned'.op = op
    /\ returned'.session_id = "s1"
    /\ UNCHANGED <<clock, appended>>
    /\ messages_table' = cleanup_locked(Store, clock).messages_table

\* C31: a stored row whose payload is not JSON is skipped by the read:
\* get_session returns the other rows of the session in order,
\* get_last_assistant returns the last readable assistant message, and
\* inject_or_repair returns what it returns on the table without that row.
C31_CorruptRowsSkipped ==
    [][/\ Called("get_session") =>
            returned'.value = ReadableRecords(messages_table', "s1")
       /\ Called("get_last_assistant") =>
            returned'.value =
                get_last_assistant(Readable(Store), "s1", clock).value
       /\ Called("inject_or_repair") =>
            returned'.value =
                inject_or_repair(Readable(Store), returned'.messages, "s1",
                                 TRUE, clock).result
      ]_vars

\* get_session has returned two records in order from a table that holds
\* an unreadable row of the session between or beside them.
C31_Witness ==
    /\ returned.op = "get_session"
    /\ Len(returned.value) = 2
    /\ returned.value[1] # returned.value[2]
    /\ SessionDamaged(messages_table, "s1")
    /\ returned.value = ReadableRecords(messages_table, "s1")

\* inject_or_repair has injected the readable assistant message while the
\* session's latest row is unreadable.
C31_WitnessRepair ==
    /\ returned.op = "inject_or_repair"
    /\ returned.value.repaired
    /\ messages_table # <<>>
    /\ ~messages_table[Len(messages_table)].payload.json


\* ------------------------------ properties of the codec, continued
\* Raw text that cannot be converted to the declared type: no int, no
\* finite number, no bool, no JSON value (text that lower-cases to `null`
\* is None whatever the type).
Uncoercible(raw, param_type) ==
    /\ Lit(lower(raw)) # "null"
    /\ CASE param_type = "integer" -> Lit(raw) # "42"
         [] param_type = "number"  -> Lit(raw) \notin {"42", "4.0", "1.5"}
         [] param_type = "boolean" -> Lit(lower(raw)) \notin {"true", "false", "1", "0"}
         [] param_type \in {"object", "array"} -> ~json_loads_value(raw).ok
         [] OTHER -> FALSE

\* C32: a parameter whose raw text cannot be converted to its declared type
\* (integer, number, boolean, object, array), `inf` for a number included,
\* has the raw string as its value, and the decoding still returns every
\* call of the text with tools_called true.
C32_UncoercibleNonFatal ==
    (Parsed /\ \A t \in 1..Len(codec.tools) : codec.tools[t].dict) =>
        LET invokes == CompleteInvokes
        IN  /\ Len(codec.result.tool_calls) = Cardinality(invokes)
            /\ codec.result.tools_called <=> invokes # {}
            /\ \A c \in 1..Len(codec.result.tool_calls) :
                  LET call == codec.result.tool_calls[c]
                      ps   == ParametersAt(NthInvoke(invokes, c))
                  IN  \A p \in ps :
                        LET param_name == ParameterName(Decoded[p])
                        IN  ( /\ \A p0 \in ps :
                                    ParameterName(Decoded[p0]) = param_name => p0 <= p
                              /\ \E param_type \in DeclaredTypes(call.name, param_name) :
                                    Uncoercible(RawText(p), param_type) )
                            => ValueOf(call, param_name) = PyStr(RawText(p))


\* ---------------------------------------- properties of the splitter
IsOpen(t) == t.c = "<think>"

IsClose(t) == t.c = "</think>"

\* The ways to give every place of a text to the reasoning, to the visible
\* text, or to the markers that are dropped: only markers are dropped, every
\* closing marker is, and an opening marker is kept only as reasoning.
Partitions(text) ==
    {l \in [1..Len(text) -> {"reasoning", "visible", "marker"}] :
        \A k \in 1..Len(text) :
            /\ l[k] = "marker" => IsOpen(text[k]) \/ IsClose(text[k])
            /\ IsClose(text[k]) => l[k] = "marker"
            /\ IsOpen(text[k]) => l[k] # "visible"}

Part(text, l, part) == AtIndices(text, {k \in 1..Len(text) : l[k] = part})

\* C33: split_think partitions its input: the reasoning and the visible
\* text are the tokens of two disjoint sets of places of the input, each in
\* the order of the input, and what is in neither is markers; the text
\* before a closing marker with no opening marker before it is reasoning;
\* a text without markers is returned whole as visible.
C33_SplitterPartition ==
    Len(texts) = 3 =>
        LET text      == texts[1]
            reasoning == texts[2]
            visible   == texts[3]
            close_idx == Find(text, THINK_CLOSE, 1)
        IN  /\ \E l \in Partitions(text) :
                  /\ Part(text, l, "reasoning") = reasoning
                  /\ Part(text, l, "visible") = visible
            /\ (close_idx # 0 /\ \A k \in 1..close_idx : ~IsOpen(text[k]))
                   => /\ Len(reasoning) >= close_idx - 1
                      /\ SubSeq(reasoning, 1, close_idx - 1)
                             = SubSeq(text, 1, close_idx - 1)
            /\ (\A k \in 1..Len(text) : ~IsOpen(text[k]) /\ ~IsClose(text[k]))
                   => reasoning = <<>> /\ visible = text

\* Two reasoning segments, the first without an opening marker, split from
\* one text.
C33_Witness ==
    /\ Len(texts) = 3
    /\ texts[1] = Text(<<"a", "</think>", " ", "</think>">>)
    /\ texts[2] = Text(<<"a", " ">>)
    /\ texts[3] = <<>>


\* ------------------------ properties of the Anthropic stream, continued
IsBlockEvent(e) ==
    e.event \in {"content_block_start", "content_block_delta", "content_block_stop"}

\* The blocks open before event k: started and not stopped since.
OpenBlocks(yielded, k) ==
    {s \in 1..(k - 1) :
        /\ yielded[s].event = "content_block_start"
        /\ \A j \in (s + 1)..(k - 1) :
              ~(yielded[j].event = "content_block_stop"
                /\ yielded[j].index = yielded[s].index)}

\* C34: the content blocks of the MiniMax path are well-formed: a block
\* starts only when no block is open, a delta or a stop targets the one open
\* block, no index is used by two blocks, no block is left open when the
\* stream has stopped, and a tool_use block is a start, an input_json_delta
\* and a stop.
C34_BlocksWellFormed ==
    LET yielded == anthropic.yielded
    IN  /\ \A k \in 1..Len(yielded) :
              /\ yielded[k].event = "content_block_start"
                    => /\ OpenBlocks(yielded, k) = {}
                       /\ \A s \in 1..(k - 1) :
                             yielded[s].event = "content_block_start"
                                 => yielded[s].index # yielded[k].index
              /\ yielded[k].event \in {"content_block_delta", "content_block_stop"}
                    => \E s \in 1..(k - 1) :
                          /\ OpenBlocks(yielded, k) = {s}
                          /\ yielded[s].index = yielded[k].index
              /\ (yielded[k].event = "content_block_start"
                  /\ yielded[k].type = "tool_use" /\ k + 2 <= Len(yielded))
                    => /\ yielded[k + 1].event = "content_block_delta"
                       /\ yielded[k + 1].type = "input_json_delta"
                       /\ yielded[k + 2].event = "content_block_stop"
        /\ anthropic.stage = "stopped" => OpenBlocks(yielded, Len(yielded) + 1) = {}

Events(yielded, event) == {k \in 1..Len(yielded) : yielded[k].event = event}

\* C35: when stream_anthropic_response has ended, message_start is its
\* first event and message_stop its last, message_stop and message_delta
\* occur once each, and no content block event follows message_delta.
C35_MessageOrdering ==
    LET yielded == anthropic.yielded
    IN  anthropic.stage = "stopped" =>
            /\ yielded[1].event = "message_start"
            /\ yielded[Len(yielded)].event = "message_stop"
            /\ Cardinality(Events(yielded, "message_stop")) = 1
            /\ Cardinality(Events(yielded, "message_delta")) = 1
            /\ \A d \in Events(yielded, "message_delta") :
                  \A k \in (d + 1)..Len(yielded) : ~IsBlockEvent(yielded[k])


\* --------------------------- properties of the OpenAI stream, continued
\* The text of the content deltas yielded to the client.
RECURSIVE EmittedContent(_)
EmittedContent(yielded) ==
    IF yielded = <<>> THEN <<>>
    ELSE (IF Head(yielded).content.none THEN <<>> ELSE Head(yielded).content.s)
         \o EmittedContent(Tail(yielded))

\* The text of the reasoning deltas received.
RECURSIVE ReasoningOf(_)
ReasoningOf(chunks) ==
    IF chunks = <<>> THEN <<>>
    ELSE Head(chunks).reasoning_content \o ReasoningOf(Tail(chunks))

Places(text, marker) == {k \in 1..Len(text) : text[k].c = marker}

\* structured_stream has handled the stream for a client that did not ask
\* for reasoning_split, and the backend's content deltas hold no marker.
StructuredRun ==
    /\ openai.stage = "done"
    /\ openai.structured_mode
    /\ ~openai.reasoning_split
    /\ Places(ContentOf(openai.received), "<think>") = {}
    /\ Places(ContentOf(openai.received), "</think>") = {}

\* C36: the content deltas of structured_stream without reasoning_split
\* hold `<think>` once and `</think>` once, the reasoning deltas received
\* are the text between them, the content deltas received are the text
\* after them, and no tool-call delta is yielded before the closing marker.
C36_ReasoningInOneBlock ==
    StructuredRun =>
        LET emitted == EmittedContent(openai.yielded)
            opens   == Places(emitted, "<think>")
            closes  == Places(emitted, "</think>")
        IN  /\ Cardinality(opens) = 1
            /\ Cardinality(closes) = 1
            /\ \A a \in opens, b \in closes :
                  /\ a = 1
                  /\ a < b
                  /\ SubSeq(emitted, a + 1, b - 1) = ReasoningOf(openai.received)
                  /\ SubSeq(emitted, b + Len(close_text), Len(emitted))
                         = ContentOf(openai.received)
            /\ \A k \in 1..Len(openai.yielded) :
                  openai.yielded[k].tool_calls # <<>>
                      => closes # {}
                         /\ Places(EmittedContent(SubSeq(openai.yielded, 1, k - 1)),
                                   "</think>") # {}


\* -------------------------------- properties of the parser, chunking
\* SimpleStreamingParser() before its first chunk.
FreshParser ==
    [accumulated |-> <<>>, cursor |-> 0, tools_sent |-> FALSE,
     pending_buffer |-> <<>>, ready_to_emit |-> FALSE, emitted_content |-> FALSE,
     synthetic_think_close_sent |-> FALSE]

\* What a turn yields: whether a call raised, the emitted content joined,
\* and the calls of its batches.
RECURSIVE TextOf(_)
TextOf(outputs) ==
    IF outputs = <<>> THEN <<>>
    ELSE [k \in 1..Len(Head(outputs).text) |-> Head(outputs).text[k].c]
         \o TextOf(Tail(outputs))

RECURSIVE BatchOf(_)
BatchOf(outputs) ==
    IF outputs = <<>> THEN <<>>
    ELSE Head(outputs).calls \o BatchOf(Tail(outputs))

Yields(outputs) ==
    [raised  |-> \E k \in 1..Len(outputs) : outputs[k].type = "raise",
     content |-> TextOf(outputs),
     calls   |-> BatchOf(outputs)]

\* The outputs of a fresh parser given the whole text as one chunk and then
\* flushed.
ThenFlushed(r) ==
    IF r.res.type = "raise" THEN <<r.res>>
    ELSE <<r.res, flush_pending(r.self).res>>

AsOneChunk(text) == ThenFlushed(process_chunk(FreshParser, text))

ThenChunk(r, text) ==
    IF r.res.type = "raise" THEN <<r.res>>
    ELSE <<r.res>> \o ThenFlushed(process_chunk(r.self, text))

\* The outputs of a fresh parser given the text as two chunks, split after
\* its first n tokens, and then flushed.
AsTwoChunks(text, n) ==
    ThenChunk(process_chunk(FreshParser, SubSeq(text, 1, n)),
              SubSeq(text, n + 1, Len(text)))

\* The turn has been fed its chunks and flushed once.
TurnFlushed ==
    /\ NumCalls("flush") = 1
    /\ events[Len(events)].op = "flush"

\* C37: the chunks of a turn fed to a fresh parser and then flushed yield
\* the same batch of calls and the same emitted content as the whole text
\* fed as one chunk and then flushed, and as the text fed as its first
\* chunk followed by all the rest as one chunk and then flushed.
C37_ChunkingInvariance ==
    TurnFlushed =>
        /\ Yields(events) = Yields(AsOneChunk(accumulated))
        /\ Yields(events) = Yields(AsTwoChunks(accumulated, events[1].at))
\* ------------------------------------------ properties of process_delta
\* The content deltas returned so far, concatenated.
RECURSIVE ReturnedContent(_)
ReturnedContent(results) ==
    IF results = <<>> THEN <<>>
    ELSE (IF Head(results).type = "content" THEN Head(results).delta ELSE <<>>)
         \o ReturnedContent(Tail(results))

\* No place of the stream is returned twice, and the places come in order.
EachOnce(out) == \A j, k \in 1..Len(out) : j < k => out[j].i < out[k].i

\* C38: over any sequence of deltas, the content deltas returned by
\* process_delta, concatenated, hold each character of the stream at most
\* once and in the stream's order: text returned by an earlier call is not
\* returned again, in particular not by the call in which the start marker
\* of a call-block arrives.
C38_EachCharacterOnce == EachOnce(ReturnedContent(delta_parser.results))

\* ------------------------------------- properties of the repair, repeated
\* inject_or_repair called again, for the same session, with the list the
\* last call returned; the store is as that call left it.
Again ==
    inject_or_repair(Store, returned.value.messages, returned.session_id,
                     returned.require_session, clock).result

\* The skip reason of a call that meets the stored assistant message in the
\* list, or leaves by an early exit.
SkipReasonNow ==
    IF ~enabled THEN "disabled"
    ELSE IF returned.session_id = NoSession
    THEN (IF returned.require_session THEN "missing_session_id"
          ELSE "missing_session_id_optional")
    ELSE IF get_last_assistant(Store, returned.session_id, clock).value = NoMessage
    THEN "no_history"
    ELSE "assistant_present"

\* C39 as stated: inject_or_repair applied to the list a previous
\* inject_or_repair returned, for the same session and with the store
\* unchanged in between, returns the list unchanged with skip reason
\* assistant_present, whatever the state of the store and the list.
C39_RepairIdempotent ==
    Repairs =>
        /\ Again.messages = returned.value.messages
        /\ ~Again.repaired
        /\ Again.skipped
        /\ Again.skip_reason = "assistant_present"

\* C39 as amended: the second call returns the list unchanged, skipped and
\* not repaired, so the stored assistant message is never injected a second
\* time; its skip reason is assistant_present when the session holds an
\* unexpired assistant message at the second call, and the reason of the
\* early exit taken (disabled, missing_session_id,
\* missing_session_id_optional, no_history) otherwise.
C39_RepairIdempotentWhereStored ==
    Repairs =>
        /\ Again.messages = returned.value.messages
        /\ ~Again.repaired
        /\ Again.skipped
        /\ Again.skip_reason = SkipReasonNow

\* The last call injected the stored message before a tool message, and the
\* call repeated on its result skips with assistant_present.
C39_Witness ==
    /\ Repairs
    /\ returned.value.repaired
    /\ Len(returned.value.messages) = Len(returned.messages) + 1
    /\ returned.value.messages[Len(returned.value.messages)].role = "tool"
    /\ Again.skip_reason = "assistant_present"
    /\ Again.messages = returned.value.messages

\* ------------------------------------ properties of the finish reason
\* The last element of a list that satisfies Test, "" standing for none.
LastOf(list, Test(_), Field(_)) ==
    LET hits == {k \in 1..Len(list) : Test(list[k])}
    IN  IF hits = {} THEN ""
        ELSE Field(list[CHOOSE k \in hits : \A j \in hits : j <= k])

\* The finish reason the backend reported last.
BackendReason(received) ==
    LastOf(received, LAMBDA chunk : chunk.has_choices /\ chunk.finish_reason # "",
           LAMBDA chunk : chunk.finish_reason)

\* An Anthropic stream delivered a tool_use block.
ToolUseDelivered(yielded) ==
    \E k \in 1..Len(yielded) :
        yielded[k].event = "content_block_start" /\ yielded[k].type = "tool_use"

\* The stop reason an Anthropic stream sent last.
ClientStopReason(yielded) ==
    LastOf(yielded, LAMBDA e : e.event = "message_delta", LAMBDA e : e.type)

\* An OpenAI stream delivered a tool call.
ToolCallDelivered(yielded) ==
    \E k \in 1..Len(yielded) : yielded[k].tool_calls # <<>>

\* The finish reason an OpenAI stream sent last.
ClientFinishReason(yielded) ==
    LastOf(yielded, LAMBDA c : c.finish_reason # "", LAMBDA c : c.finish_reason)

AnthropicReasonReflects(a) ==
    (/\ ToolUseDelivered(a.yielded)
     /\ BackendReason(a.received) = "stop"
     /\ ClientStopReason(a.yielded) # "")
        => ClientStopReason(a.yielded) = "tool_use"

OpenAIReasonReflects(o) ==
    (/\ ToolCallDelivered(o.yielded)
     /\ BackendReason(o.received) = "stop"
     /\ ClientFinishReason(o.yielded) # "")
        => ClientFinishReason(o.yielded) = "tool_calls"

\* C40: on every streaming path (Anthropic with MiniMax parsing, Anthropic
\* passed through, OpenAI), when a tool call has been delivered to the client
\* and the backend reported the finish reason stop, the reason sent to the
\* client is tool_use (Anthropic) or tool_calls (OpenAI), never end_turn or
\* stop.
C40_FinishReasonReflectsToolCalls ==
    /\ AnthropicReasonReflects(anthropic)
    /\ AnthropicReasonReflects(passthrough)
    /\ OpenAIReasonReflects(openai)

====
